---- MODULE Spec2Model ----
(***************************************************************************)
(* Model of the fs_sim block filesystem (src/src/fs/*.cpp).                *)
(*                                                                         *)
(* The image is the flat byte array that Disk maps (mapped_data); every    *)
(* on-disk structure is a view of those bytes, exactly as the code         *)
(* reinterpret_casts them, so that two views of the same block alias.      *)
(*                                                                         *)
(* Geometry is scaled down so that the image is small enough to explore:   *)
(* every size_t / enum field is one byte wide (little-endian values below  *)
(* 256 occupy their lowest byte), a block has BLOCK_SIZE bytes, an inode   *)
(* has NDIRECT pointers, a name buffer has NAME_MAX bytes and a group has   *)
(* GROUP_SIZE blocks and GROUP_SIZE inodes.  The layout rules (offsets,     *)
(* packing, entries per block, table length) are computed from those       *)
(* numbers by the same formulas as the code.                               *)
(***************************************************************************)
EXTENDS Integers, Sequences, FiniteSets, TLC

VARIABLES disk,                  \* Disk::mapped_data, one byte per index
          sb,                    \* FileSystem::sb, the in-memory SuperBlock
          block_group_managers,  \* FileSystem::block_group_managers (group ids)
          ret,                   \* what the last public call returned / threw
          nops,                  \* number of public calls made so far
          session,               \* current_uid, current_gid of the session
          meta                   \* uid, gid, permissions of every inode

vars == <<disk, sb, block_group_managers, ret, nops, session, meta>>

----------------------------------------------------------------------------
(* Scaled geometry.                                                        *)

\* Disk::BLOCK_SIZE (4096 in the source).
BLOCK_SIZE == 16
\* Disk::BLOCK_COUNT = capacity_bytes / BLOCK_SIZE (4096 for a 16 MiB image).
BLOCK_COUNT == 16
\* blocks_per_group = inodes_per_group, set by the SuperBlock constructors
\* and by format (4096 in the source).
GROUP_SIZE == 16
\* length of Inode::direct_blocks (12 in the source).
NDIRECT == 3
\* length of DirEntry::name (255 in the source).
NAME_MAX == 3
\* number of public calls explored.
MaxOps == 4
\* depth at which the recursion of recursive_resource_release exhausts the
\* call stack.
MaxStack == 4

\* Relative block offsets inside a group.
INODE_BITMAP_OFFSET == 1
BLOCK_BITMAP_OFFSET == 2
INODE_TABLE_OFFSET == 3

\* enum FS_FILE_TYPES
FS_FREE == 0
FS_FILE == 1
FS_DIRECTORY == 2

\* The low byte of 0xF5513001, which is what a one-byte field keeps.
MAGIC_NUMBER == 1

\* sizeof(Inode): id, file_type, file_size, direct_blocks[NDIRECT], packed.
INODE_SIZE == 3 + NDIRECT
\* sizeof(DirEntry): inode_id, name_len, name[NAME_MAX], packed.
DIRENT_SIZE == 2 + NAME_MAX
\* max_entries = 4096 / sizeof(DirEntry)
max_entries == BLOCK_SIZE \div DIRENT_SIZE

DiskBytes == 0 .. (BLOCK_COUNT * BLOCK_SIZE - 1)

\* Values an uninitialised size_t member or heap byte may hold.
Indeterminate == {0, 1}

----------------------------------------------------------------------------
(* Raw memory helpers (memcpy / memset on mapped_data).                    *)
(*                                                                         *)
(* An operator that changes the image returns the SET of its possible      *)
(* outcomes (one outcome wherever the code is deterministic); a caller      *)
(* takes each outcome in turn, which is how one statement follows another.  *)

\* the element of a one-element set
The(S) == CHOOSE x \in S : TRUE

Min(a, b) == IF a < b THEN a ELSE b

\* memcpy(d + off, bytes, Len(bytes))
Poke(d, off, bytes) ==
    The({[x \in DOMAIN dd |->
             IF x >= off /\ x < off + Len(bb) THEN bb[x - off + 1] ELSE dd[x]]
         : dd \in {d}, bb \in {bytes}})

\* memset(d + off, v, n)
Fill(d, off, n, v) ==
    The({[x \in DOMAIN dd |-> IF x >= off /\ x < off + n THEN v ELSE dd[x]]
         : dd \in {d}})

\* the n bytes at d + off
Peek(d, off, n) == [k \in 1 .. n |-> d[off + k - 1]]

\* *(d + off) = v
Store(d, off, v) == [d EXCEPT ![off] = v]

Pow2(n) == 2 ^ n

\* the least element of a non-empty set of integers
Least(S) == The({x \in S : \A y \in S : x <= y})

\* Disk::get_ptr / read_block / write_block bounds check.
BlockInRange(block_id) == block_id >= 0 /\ block_id < BLOCK_COUNT

----------------------------------------------------------------------------
(* BlockGroupManager: bitmaps.                                             *)

\* byte offset of group g's inode bitmap
get_inode_bitmap_ptr(s, g) == (g * s.blocks_per_group + INODE_BITMAP_OFFSET) * BLOCK_SIZE
\* byte offset of group g's block bitmap
get_block_bitmap_ptr(s, g) == (g * s.blocks_per_group + BLOCK_BITMAP_OFFSET) * BLOCK_SIZE
\* byte offset of group g's inode table
get_inode_table_start(s, g) == (g * s.blocks_per_group + INODE_TABLE_OFFSET) * BLOCK_SIZE

get_bit(d, bitmap, index) ==
    (d[bitmap + (index \div 8)] \div Pow2(index % 8)) % 2 = 1

set_bit(d, bitmap, index) ==
    [d EXCEPT ![bitmap + (index \div 8)] =
        IF (@ \div Pow2(index % 8)) % 2 = 1 THEN @ ELSE @ + Pow2(index % 8)]

clear_bit(d, bitmap, index) ==
    [d EXCEPT ![bitmap + (index \div 8)] =
        IF (@ \div Pow2(index % 8)) % 2 = 1 THEN @ - Pow2(index % 8) ELSE @]

\* The first clear bit among the max_bits \div 8 whole bytes, or -1.
find_first_free_bit(d, bitmap, max_bits) ==
    The({IF free = {} THEN -1 ELSE Least(free)
         : free \in {{x \in 0 .. ((max_bits \div 8) * 8 - 1) :
                        /\ d[bitmap + (x \div 8)] # 255
                        /\ ~get_bit(d, bitmap, x)
                        /\ x < max_bits}}})

----------------------------------------------------------------------------
(* BlockGroupManager: inodes.                                              *)

\* BlockGroupManager::get_inode: the byte offset of the inode, or -1 when
\* the bounds check throws.
get_inode(s, g, inode_id) ==
    IF inode_id < g * s.inodes_per_group
       \/ inode_id >= g * s.inodes_per_group + s.inodes_per_group
    THEN -1
    ELSE get_inode_table_start(s, g) + (inode_id % s.inodes_per_group) * INODE_SIZE

\* Field offsets inside an Inode.
I_id(p) == p
I_file_type(p) == p + 1
I_file_size(p) == p + 2
I_direct_blocks(p, i) == p + 3 + i

\* BlockGroupManager::allocate_inode: outcomes [d, id], id = -1 when the
\* group is full.
allocate_inode(d, s, g) ==
    {IF local_index = -1 THEN [d |-> d, id |-> -1]
     ELSE LET global_id == g * s.inodes_per_group + local_index
              node == get_inode(s, g, global_id)
          IN [d |-> Store(Fill(set_bit(d, get_inode_bitmap_ptr(s, g), local_index),
                               node, INODE_SIZE, 0),
                          I_id(node), global_id),
              id |-> global_id]
     : local_index \in {find_first_free_bit(d, get_inode_bitmap_ptr(s, g),
                                            s.inodes_per_group)}}

free_inode(d, s, g, global_inode_id) ==
    clear_bit(d, get_inode_bitmap_ptr(s, g), global_inode_id % s.inodes_per_group)

is_inode_allocated(d, s, g, global_inode_id) ==
    get_bit(d, get_inode_bitmap_ptr(s, g), global_inode_id % s.inodes_per_group)

----------------------------------------------------------------------------
(* BlockGroupManager: blocks.                                              *)

\* allocate_block without the retry on local index 0: the first clear bit is
\* taken whatever it is.
allocate_blockFirstClear(d, s, g) ==
    {IF local_index = -1 THEN [d |-> d, id |-> -1, err |-> ""]
     ELSE IF ~BlockInRange(g * s.blocks_per_group + local_index)
     THEN [d |-> set_bit(d, get_block_bitmap_ptr(s, g), local_index),
           id |-> -1, err |-> "out_of_range"]
     ELSE [d |-> Fill(set_bit(d, get_block_bitmap_ptr(s, g), local_index),
                      (g * s.blocks_per_group + local_index) * BLOCK_SIZE,
                      BLOCK_SIZE, 0),
           id |-> g * s.blocks_per_group + local_index, err |-> ""]
     : local_index \in {find_first_free_bit(d, get_block_bitmap_ptr(s, g),
                                            s.blocks_per_group)}}

\* BlockGroupManager::allocate_block: outcomes [d, id, err].  id = -1 when
\* the bitmap has no clear bit; err is set when Disk::get_ptr throws on the
\* new block.
RECURSIVE allocate_block(_, _, _)
allocate_block(d, s, g) ==
    UNION {
      IF local_index = -1 THEN {[d |-> d, id |-> -1, err |-> ""]}
      ELSE IF local_index = 0
      THEN UNION {allocate_block(d1, s, g)
                  : d1 \in {set_bit(d, get_block_bitmap_ptr(s, g), 0)}}
      ELSE LET global_block_id == g * s.blocks_per_group + local_index
           IN {IF ~BlockInRange(global_block_id)
               THEN [d |-> d1, id |-> -1, err |-> "out_of_range"]
               ELSE [d |-> Fill(d1, global_block_id * BLOCK_SIZE, BLOCK_SIZE, 0),
                     id |-> global_block_id, err |-> ""]
               : d1 \in {set_bit(d, get_block_bitmap_ptr(s, g), local_index)}}
      : local_index \in {find_first_free_bit(d, get_block_bitmap_ptr(s, g),
                                             s.blocks_per_group)}}

free_block(d, s, g, global_block_id) ==
    clear_bit(d, get_block_bitmap_ptr(s, g), global_block_id % s.blocks_per_group)

----------------------------------------------------------------------------
(* FileSystem: construction, format, mount.                                *)

\* SuperBlock::SuperBlock(); home_dir_inode is not initialised by it.
NewSuperBlock(h) ==
    [magic_number |-> MAGIC_NUMBER, total_inodes |-> 0, total_blocks |-> 0,
     inodes_per_group |-> GROUP_SIZE, blocks_per_group |-> GROUP_SIZE,
     home_dir_inode |-> h]

\* the bytes of a SuperBlock
SuperBlockBytes(s) ==
    <<s.magic_number, s.total_inodes, s.total_blocks,
      s.inodes_per_group, s.blocks_per_group, s.home_dir_inode>>

\* reinterpret_cast<SuperBlock*>(disk.get_ptr(0))
DiskSuperBlock(d) ==
    [magic_number |-> d[0], total_inodes |-> d[1], total_blocks |-> d[2],
     inodes_per_group |-> d[3], blocks_per_group |-> d[4],
     home_dir_inode |-> d[5]]

NoRet == [op |-> "none", path |-> <<>>, err |-> "", data |-> <<>>,
          inodes |-> <<>>, blocks |-> <<>>]

\* Session state: current_uid = current_gid = 0 at construction.
RootSession == [uid |-> 0, gid |-> 0]

\* Owner, group and permission bits of an inode; every inode id of the image
\* has them, zero until something sets them.
MetaIds == 0 .. (BLOCK_COUNT - 1)
NoMeta == [uid |-> 0, gid |-> 0, permissions |-> 0]
\* 0o755 and 0o644
DirPermissions == 493
FilePermissions == 420

\* The owner fields of a new inode: the creating session's uid and gid, and
\* the default permissions of its type.
NewMeta(sess, type) ==
    [uid |-> sess.uid, gid |-> sess.gid,
     permissions |-> IF type = FS_DIRECTORY THEN DirPermissions ELSE FilePermissions]

Init ==
    /\ disk = [x \in DiskBytes |-> 0]
    /\ \E h \in Indeterminate : sb = NewSuperBlock(h)
    /\ block_group_managers = <<>>
    /\ ret = NoRet
    /\ nops = 0
    /\ session = RootSession
    /\ meta = [id \in MetaIds |-> NoMeta]

\* The managers mount builds: one per whole group.
Managers(s) ==
    IF s.blocks_per_group = 0 THEN <<>>
    ELSE [g \in 1 .. (s.total_blocks \div s.blocks_per_group) |-> g - 1]

\* A mount that loads whatever block 0 holds, without the magic test.
mountAnyImage ==
    /\ nops < MaxOps
    /\ nops' = nops + 1
    /\ sb' = DiskSuperBlock(disk)
    /\ block_group_managers' = Managers(DiskSuperBlock(disk))
    /\ ret' = [NoRet EXCEPT !.op = "mount"]
    /\ UNCHANGED <<disk, session, meta>>

\* FileSystem::mount
mount ==
    /\ nops < MaxOps
    /\ nops' = nops + 1
    /\ IF DiskSuperBlock(disk).magic_number # MAGIC_NUMBER
       THEN /\ ret' = [NoRet EXCEPT !.op = "mount", !.err = "InvalidImage"]
            /\ UNCHANGED <<disk, sb, block_group_managers, session, meta>>
       ELSE /\ sb' = DiskSuperBlock(disk)
            /\ block_group_managers' = Managers(DiskSuperBlock(disk))
            /\ ret' = [NoRet EXCEPT !.op = "mount"]
            /\ UNCHANGED <<disk, session, meta>>

\* The superblock format builds in memory.
FormatSuperBlock(s) ==
    [s EXCEPT !.magic_number = MAGIC_NUMBER,
              !.total_blocks = BLOCK_COUNT,
              !.blocks_per_group = GROUP_SIZE,
              !.inodes_per_group = GROUP_SIZE,
              !.total_inodes = (BLOCK_COUNT \div GROUP_SIZE) * GROUP_SIZE]

\* FileSystem::format.  write_block(0, sb) copies BLOCK_SIZE bytes from the
\* sizeof(SuperBlock)-byte heap object: the tail of block 0 receives whatever
\* follows it in the heap.
format ==
    /\ nops < MaxOps
    /\ nops' = nops + 1
    /\ UNCHANGED session
    /\ \E junk \in Indeterminate :
       \E d1 \in {Poke([x \in DiskBytes |-> IF x < BLOCK_SIZE THEN junk ELSE 0],
                       0, SuperBlockBytes(FormatSuperBlock(sb)))} :
       \E s2 \in {DiskSuperBlock(d1)} :
          /\ sb' = s2
          /\ block_group_managers' = Managers(s2)
          /\ IF Len(Managers(s2)) = 0
             THEN \* block_group_managers[0] on an empty vector
                  /\ disk' = d1
                  /\ meta' = [id \in MetaIds |-> NoMeta]
                  /\ ret' = [NoRet EXCEPT !.op = "format", !.err = "crash"]
             ELSE \E a \in allocate_inode(d1, s2, 0) :
                  IF a.id = -1
                  THEN /\ disk' = a.d
                       /\ meta' = [id \in MetaIds |-> NoMeta]
                       /\ ret' = [NoRet EXCEPT !.op = "format", !.err = "NoSpace"]
                  ELSE /\ disk' = Store(Store(Store(a.d,
                                    I_file_type(get_inode(s2, 0, a.id)), FS_DIRECTORY),
                                    I_id(get_inode(s2, 0, a.id)), a.id),
                                    I_file_size(get_inode(s2, 0, a.id)), 0)
                       /\ meta' = [id \in MetaIds |->
                                    IF id = a.id THEN NewMeta(RootSession, FS_DIRECTORY)
                                    ELSE NoMeta]
                       /\ ret' = [NoRet EXCEPT !.op = "format", !.inodes = <<a.id>>]

----------------------------------------------------------------------------
(* FileSystem: lookup.                                                     *)

\* Path components (tokenize_path output); 97 = 'a', 98 = 'b'.
Names == {<<97>>, <<98>>}
\* Tokenized paths: the root, /x and /x/y.
Paths == {<<>>} \cup {<<n>> : n \in Names} \cup {<<n, m>> : n \in Names, m \in Names}
NonEmptyPaths == Paths \ {<<>>}

\* std::string name = tokenized_path.back(): the last component.  On an
\* empty vector the read is undefined: the call crashes (handled where Back
\* is used) or goes on with whatever string the read produced.
Back(path) == IF Len(path) > 0 THEN {path[Len(path)]} ELSE Names

\* Byte offset of slot j of directory block block_id, and its fields.
EntryOff(block_id, j) == block_id * BLOCK_SIZE + j * DIRENT_SIZE
E_inode_id(e) == e
E_name_len(e) == e + 1
E_name(e) == e + 2

\* A comparison that starts one byte into the stored name.
StrNEqOffByOne(stored, name) ==
    \A k \in 1 .. (NAME_MAX - 1) :
       stored[k + 1] = (IF k <= Len(name) THEN name[k] ELSE 0)

\* std::strncmp(stored, name.c_str(), 255) == 0, stored being the NAME_MAX
\* bytes of a DirEntry::name.
StrNEq(stored, name) ==
    \A k \in 1 .. NAME_MAX :
       (\A m \in 1 .. (k - 1) :
           stored[m] # 0 /\ stored[m] = (IF m <= Len(name) THEN name[m] ELSE 0))
       => stored[k] = (IF k <= Len(name) THEN name[k] ELSE 0)

\* FileSystem::get_global_inode_ptr: byte offset of the inode, -1 when it
\* throws "Inode ID out of bounds!".
get_global_inode_ptr(s, mgrs, global_id) ==
    IF global_id \div s.inodes_per_group >= Len(mgrs) THEN -1
    ELSE get_inode(s, global_id \div s.inodes_per_group, global_id)

\* Number of leading non-zero direct_blocks of the inode at p: the blocks a
\* scan visits before its `break`.
ScanLen(d, p) ==
    The({IF zeros = {} THEN NDIRECT ELSE Least(zeros)
         : zeros \in {{i \in 0 .. (NDIRECT - 1) : d[I_direct_blocks(p, i)] = 0}}})

\* Of the first m direct_blocks of the inode at p, the index of the first
\* that is outside the disk (where get_ptr / read_block throws), else m.
FirstBad(d, p, m) ==
    The({IF bad = {} THEN m ELSE Least(bad)
         : bad \in {{i \in 0 .. (m - 1) : ~BlockInRange(d[I_direct_blocks(p, i)])}}})

\* The scan loop shared by find_inode_in_dir, delete_file and delete_dir:
\* the first slot with inode_id # 0 and a matching name (e is its byte
\* offset).  kind is "found", "none", or "throw" when a block id met before
\* any match is outside the disk.
ScanDir(d, p, name) ==
    The({
      The({
        IF hits # {}
        THEN [kind |-> "found",
              e |-> EntryOff(d[I_direct_blocks(p, Least(hits) \div max_entries)],
                             Least(hits) % max_entries)]
        ELSE IF firstBad < m THEN [kind |-> "throw", e |-> 0]
        ELSE [kind |-> "none", e |-> 0]
        : hits \in {{x \in 0 .. (firstBad * max_entries - 1) :
                      LET e == EntryOff(d[I_direct_blocks(p, x \div max_entries)],
                                        x % max_entries)
                      IN /\ d[E_inode_id(e)] # 0
                         /\ StrNEq(Peek(d, E_name(e), NAME_MAX), name)}}})
      : m \in {ScanLen(d, p)}, firstBad \in {FirstBad(d, p, ScanLen(d, p))}})

\* FileSystem::find_inode_in_dir: [id, err]; id = 0 means not found.
find_inode_in_dir(d, p, name) ==
    The({IF r.kind = "found" THEN [id |-> d[E_inode_id(r.e)], err |-> ""]
         ELSE IF r.kind = "throw" THEN [id |-> 0, err |-> "out_of_range"]
         ELSE [id |-> 0, err |-> ""]
         : r \in {ScanDir(d, p, name)}})

\* The loop of FileSystem::traverse_path_till_parent from component i on.
RECURSIVE TraverseFrom(_, _, _, _, _, _)
TraverseFrom(d, s, mgrs, path, current_id, i) ==
    IF i > Len(path) - 1 THEN [id |-> current_id, err |-> ""]
    ELSE LET current_inode == get_global_inode_ptr(s, mgrs, current_id)
         IN IF current_inode = -1 THEN [id |-> 0, err |-> "OutOfRange"]
            ELSE IF d[I_file_type(current_inode)] # FS_DIRECTORY
                 THEN [id |-> 0, err |-> "NotADirectory"]
            ELSE The({IF next.err # "" THEN [id |-> 0, err |-> next.err]
                      ELSE IF next.id = 0 THEN [id |-> 0, err |-> "PathNotFound"]
                      ELSE TraverseFrom(d, s, mgrs, path, next.id, i + 1)
                      : next \in {find_inode_in_dir(d, current_inode, path[i])}})

\* A traversal that never walks: every path resolves to the root.
traverse_path_till_parentRootOnly(d, s, mgrs, path) ==
    [id |-> s.home_dir_inode, err |-> ""]

\* FileSystem::traverse_path_till_parent: [id, err].
traverse_path_till_parent(d, s, mgrs, path) ==
    IF Len(path) <= 1 THEN [id |-> s.home_dir_inode, err |-> ""]
    ELSE TraverseFrom(d, s, mgrs, path, s.home_dir_inode, 1)

----------------------------------------------------------------------------
(* FileSystem: create.                                                     *)

\* The slot write of add_entry_to_dir: entry at byte offset e, then
\* parent_inode->file_size += sizeof(DirEntry).
WriteEntry(d, parent, e, newfile_id, filename) ==
    The({Store(d5, I_file_size(parent), (d5[I_file_size(parent)] + DIRENT_SIZE) % 256)
         : d5 \in {Store(Poke(Fill(Store(d, E_inode_id(e), newfile_id),
                                   E_name(e), NAME_MAX, 0),
                              E_name(e),
                              SubSeq(filename, 1, Min(Len(filename), NAME_MAX - 1))),
                         E_name_len(e), Len(filename) % 256)}})

\* The slot loop of add_entry_to_dir on block curr_block_id, then the rest
\* of the block loop (from i + 1) when the block has no empty slot.
RECURSIVE AddEntryFrom(_, _, _, _, _, _, _, _)
AddEntryInBlock(d, s, mgrs, parent, newfile_id, filename, i, blocks, curr_block_id) ==
    IF ~BlockInRange(curr_block_id)
    THEN {[d |-> d, err |-> "out_of_range", blocks |-> blocks]}
    ELSE UNION {
           IF empty = {}
           THEN AddEntryFrom(d, s, mgrs, parent, newfile_id, filename, i + 1, blocks)
           ELSE {[d |-> WriteEntry(d, parent, EntryOff(curr_block_id, Least(empty)),
                                   newfile_id, filename),
                  err |-> "", blocks |-> blocks]}
           : empty \in {{j \in 0 .. (max_entries - 1) :
                           d[E_inode_id(EntryOff(curr_block_id, j))] = 0}}}

\* The body of add_entry_to_dir from block index i on; blocks collects what
\* allocate_block returned.
AddEntryFrom(d, s, mgrs, parent, newfile_id, filename, i, blocks) ==
    IF i >= NDIRECT THEN {[d |-> d, err |-> "DirectoryFull", blocks |-> blocks]}
    ELSE IF d[I_direct_blocks(parent, i)] # 0
    THEN AddEntryInBlock(d, s, mgrs, parent, newfile_id, filename, i, blocks,
                         d[I_direct_blocks(parent, i)])
    ELSE IF d[I_id(parent)] \div s.inodes_per_group >= Len(mgrs)
    THEN \* block_group_managers[group_idx] past the end of the vector
         {[d |-> d, err |-> "crash", blocks |-> blocks]}
    ELSE UNION {
           IF a.err # "" THEN {[d |-> a.d, err |-> a.err, blocks |-> blocks]}
           ELSE IF a.id = -1 THEN {[d |-> a.d, err |-> "DiskFull", blocks |-> blocks]}
           ELSE UNION {AddEntryInBlock(d1, s, mgrs, parent, newfile_id, filename, i,
                                       Append(blocks, a.id), a.id)
                       : d1 \in {Store(a.d, I_direct_blocks(parent, i), a.id)}}
           : a \in allocate_block(d, s, d[I_id(parent)] \div s.inodes_per_group)}

\* FileSystem::add_entry_to_dir: outcomes [d, err, blocks].
add_entry_to_dir(d, s, mgrs, parent, newfile_id, filename) ==
    AddEntryFrom(d, s, mgrs, parent, newfile_id, filename, 0, <<>>)

\* The inode allocation loop of create_fs_entry: the first group, from the
\* g-th manager on, whose allocate_inode succeeds.
RECURSIVE AllocInodeFrom(_, _, _, _)
AllocInodeFrom(d, s, mgrs, g) ==
    IF g > Len(mgrs) THEN {[d |-> d, id |-> -1]}
    ELSE UNION {IF a.id # -1 THEN {a} ELSE AllocInodeFrom(d, s, mgrs, g + 1)
                : a \in allocate_inode(d, s, mgrs[g])}

\* Step 4 of create_fs_entry: the fields of the new inode.
InitInode(d, new_inode, new_id, type) ==
    Fill(Store(Store(Store(d, I_id(new_inode), new_id),
                     I_file_size(new_inode), 0),
               I_file_type(new_inode), type),
         I_direct_blocks(new_inode, 0), NDIRECT, 0)

\* FileSystem::create_fs_entry: outcomes [d, err, inodes, blocks].
create_fs_entry(d, s, mgrs, path, type) ==
    LET fail(err) == {[d |-> d, err |-> err, inodes |-> <<>>, blocks |-> <<>>]}
    IN IF Len(path) = 0 THEN fail("InvalidPath")
       ELSE UNION {
         IF t.err # "" THEN fail(t.err)
         ELSE IF get_global_inode_ptr(s, mgrs, t.id) = -1 THEN fail("OutOfRange")
         ELSE UNION {
           IF f.err # "" THEN fail(f.err)
           ELSE IF f.id # 0 THEN fail("AlreadyExists")
           ELSE UNION {
             IF a.id = -1 THEN fail("NoSpace")
             ELSE {[d |-> r.d, err |-> r.err, inodes |-> <<a.id>>, blocks |-> r.blocks]
                   : r \in UNION {add_entry_to_dir(d2, s, mgrs,
                                     get_global_inode_ptr(s, mgrs, t.id),
                                     a.id, path[Len(path)])
                                  : d2 \in {InitInode(a.d,
                                               get_global_inode_ptr(s, mgrs, a.id),
                                               a.id, type)}}}
             : a \in AllocInodeFrom(d, s, mgrs, 1)}
           : f \in {find_inode_in_dir(d, get_global_inode_ptr(s, mgrs, t.id),
                                      path[Len(path)])}}
         : t \in {traverse_path_till_parent(d, s, mgrs, path)}}

\* What a public call leaves behind: a crash ends the process, and the next
\* one constructs a new FileSystem over the same image.
AfterCall(r, op, path, data) ==
    /\ disk' = r.d
    /\ ret' = [op |-> op, path |-> path, err |-> r.err, data |-> data,
               inodes |-> r.inodes, blocks |-> r.blocks]
    /\ IF r.err = "crash"
       THEN /\ \E h \in Indeterminate : sb' = NewSuperBlock(h)
            /\ block_group_managers' = <<>>
            /\ session' = RootSession
       ELSE UNCHANGED <<sb, block_group_managers, session>>
    /\ IF op \in {"create_file", "create_dir"} /\ Len(r.inodes) > 0
       THEN meta' = [meta EXCEPT ![r.inodes[1]] =
                        NewMeta(session, IF op = "create_dir" THEN FS_DIRECTORY
                                         ELSE FS_FILE)]
       ELSE UNCHANGED meta

\* FileSystem::create_file
create_file ==
    /\ nops < MaxOps
    /\ nops' = nops + 1
    /\ \E path \in Paths :
       \E r \in create_fs_entry(disk, sb, block_group_managers, path, FS_FILE) :
          AfterCall(r, "create_file", path, <<>>)

\* FileSystem::create_dir
create_dir ==
    /\ nops < MaxOps
    /\ nops' = nops + 1
    /\ \E path \in Paths :
       \E r \in create_fs_entry(disk, sb, block_group_managers, path, FS_DIRECTORY) :
          AfterCall(r, "create_dir", path, <<>>)

----------------------------------------------------------------------------
(* FileSystem: delete.                                                     *)

\* The block loop of release_file_resources from index i on: outcomes
\* [d, err].
RECURSIVE ReleaseBlocksFrom(_, _, _, _, _)
ReleaseBlocksFrom(d, s, mgrs, file_inode, i) ==
    IF i >= NDIRECT THEN {[d |-> d, err |-> ""]}
    ELSE IF d[I_direct_blocks(file_inode, i)] = 0
    THEN ReleaseBlocksFrom(d, s, mgrs, file_inode, i + 1)
    ELSE IF d[I_direct_blocks(file_inode, i)] \div s.blocks_per_group >= Len(mgrs)
    THEN \* block_group_managers[group_id] past the end of the vector
         {[d |-> d, err |-> "crash"]}
    ELSE UNION {ReleaseBlocksFrom(d2, s, mgrs, file_inode, i + 1)
                : d2 \in {Store(free_block(d, s,
                                   d[I_direct_blocks(file_inode, i)] \div s.blocks_per_group,
                                   d[I_direct_blocks(file_inode, i)]),
                                I_direct_blocks(file_inode, i), 0)}}

\* FileSystem::release_file_resources: outcomes [d, err].
release_file_resources(d, s, mgrs, inode_id) ==
    IF get_global_inode_ptr(s, mgrs, inode_id) = -1
    THEN {[d |-> d, err |-> "OutOfRange"]}
    ELSE {IF r.err # "" THEN r
          ELSE [d |-> free_inode(r.d, s, inode_id \div s.inodes_per_group, inode_id),
                err |-> ""]
          : r \in ReleaseBlocksFrom(d, s, mgrs,
                                    get_global_inode_ptr(s, mgrs, inode_id), 0)}

\* FileSystem::recursive_resource_release: outcomes [d, err].  The loops
\* read the inode and the entries through pointers into the image, so every
\* step sees what the previous ones wrote.  depth counts the frames on the
\* call stack.
RECURSIVE recursive_resource_release(_, _, _, _, _)
RECURSIVE ReleaseDirBlocksFrom(_, _, _, _, _, _)
RECURSIVE ReleaseEntriesFrom(_, _, _, _, _, _)

\* the entry loop over slots j.. of block block_id
ReleaseEntriesFrom(d, s, mgrs, block_id, j, depth) ==
    IF j >= max_entries THEN {[d |-> d, err |-> ""]}
    ELSE IF d[E_inode_id(EntryOff(block_id, j))] = 0
    THEN ReleaseEntriesFrom(d, s, mgrs, block_id, j + 1, depth)
    ELSE LET id == d[E_inode_id(EntryOff(block_id, j))]
             child_inode == get_global_inode_ptr(s, mgrs, id)
         IN IF child_inode = -1 THEN {[d |-> d, err |-> "OutOfRange"]}
            ELSE UNION {
                   IF r.err # "" THEN {r}
                   ELSE ReleaseEntriesFrom(r.d, s, mgrs, block_id, j + 1, depth)
                   : r \in IF d[I_file_type(child_inode)] = FS_DIRECTORY
                           THEN recursive_resource_release(d, s, mgrs, id, depth + 1)
                           ELSE release_file_resources(d, s, mgrs, id)}

\* the block loop over indices i..
ReleaseDirBlocksFrom(d, s, mgrs, dir_inode, i, depth) ==
    IF i >= NDIRECT THEN {[d |-> d, err |-> ""]}
    ELSE LET block_id == d[I_direct_blocks(dir_inode, i)]
         IN IF block_id = 0 THEN {[d |-> d, err |-> ""]}
            ELSE IF ~BlockInRange(block_id) THEN {[d |-> d, err |-> "out_of_range"]}
            ELSE UNION {
                   IF r.err # "" THEN {r}
                   ELSE IF block_id \div s.blocks_per_group >= Len(mgrs)
                        THEN {[d |-> r.d, err |-> "crash"]}
                   ELSE UNION {ReleaseDirBlocksFrom(d2, s, mgrs, dir_inode, i + 1, depth)
                               : d2 \in {free_block(r.d, s,
                                            block_id \div s.blocks_per_group, block_id)}}
                   : r \in ReleaseEntriesFrom(d, s, mgrs, block_id, 0, depth)}

recursive_resource_release(d, s, mgrs, dir_inode_id, depth) ==
    IF depth > MaxStack THEN {[d |-> d, err |-> "crash"]}
    ELSE IF get_global_inode_ptr(s, mgrs, dir_inode_id) = -1
    THEN {[d |-> d, err |-> "OutOfRange"]}
    ELSE {IF r.err # "" THEN r
          ELSE [d |-> free_inode(r.d, s, dir_inode_id \div s.inodes_per_group,
                                 dir_inode_id),
                err |-> ""]
          : r \in ReleaseDirBlocksFrom(d, s, mgrs,
                     get_global_inode_ptr(s, mgrs, dir_inode_id), 0, depth)}

\* A wipe that also detaches the parent's first block: direct_blocks[0] is
\* set to 0 while the later pointers stay.
WipeEntryDetachesBlock(d, parent_inode, e) ==
    The({Store(Store(d1, I_file_size(parent_inode),
                     (d1[I_file_size(parent_inode)] - DIRENT_SIZE) % 256),
               I_direct_blocks(parent_inode, 0), 0)
         : d1 \in {Fill(d, e, DIRENT_SIZE, 0)}})

\* Step A/B of delete_file and step B of delete_dir: wipe the entry at byte
\* offset e and decrease parent_inode->file_size.
WipeEntry(d, parent_inode, e) ==
    The({Store(d1, I_file_size(parent_inode),
               (d1[I_file_size(parent_inode)] - DIRENT_SIZE) % 256)
         : d1 \in {Fill(d, e, DIRENT_SIZE, 0)}})

\* A delete_file that decreases parent_inode->file_size before it scans, so
\* that a miss leaves the parent one entry shorter.
delete_fileShrinksFirst(d, s, mgrs, path) ==
    LET out(dd, err) == [d |-> dd, err |-> err, inodes |-> <<>>, blocks |-> <<>>]
    IN (IF Len(path) = 0 THEN {out(d, "crash")} ELSE {}) \cup UNION {
         IF t.err # "" THEN {out(d, t.err)}
         ELSE IF get_global_inode_ptr(s, mgrs, t.id) = -1 THEN {out(d, "OutOfRange")}
         ELSE UNION {
           IF f.kind = "throw" THEN {out(d, "out_of_range")}
           ELSE IF f.kind = "none"
                THEN {out(Store(d, I_file_size(pp), (d[I_file_size(pp)] - DIRENT_SIZE) % 256),
                          "FileNotFound")
                      : pp \in {get_global_inode_ptr(s, mgrs, t.id)}}
           ELSE {out(r.d, r.err)
                 : r \in UNION {release_file_resources(d2, s, mgrs, d[E_inode_id(f.e)])
                                : d2 \in {WipeEntry(d, get_global_inode_ptr(s, mgrs, t.id),
                                                    f.e)}}}
           : f \in {ScanDir(d, get_global_inode_ptr(s, mgrs, t.id), filename)}}
         : t \in {traverse_path_till_parent(d, s, mgrs, path)},
           filename \in Back(path)}

\* FileSystem::delete_file: outcomes [d, err, inodes, blocks].
delete_file(d, s, mgrs, path) ==
    LET out(dd, err) == [d |-> dd, err |-> err, inodes |-> <<>>, blocks |-> <<>>]
    IN (IF Len(path) = 0 THEN {out(d, "crash")} ELSE {}) \cup UNION {
         IF t.err # "" THEN {out(d, t.err)}
         ELSE IF get_global_inode_ptr(s, mgrs, t.id) = -1 THEN {out(d, "OutOfRange")}
         ELSE UNION {
           IF f.kind = "throw" THEN {out(d, "out_of_range")}
           ELSE IF f.kind = "none" THEN {out(d, "FileNotFound")}
           ELSE {out(r.d, r.err)
                 : r \in UNION {release_file_resources(d2, s, mgrs, d[E_inode_id(f.e)])
                                : d2 \in {WipeEntry(d, get_global_inode_ptr(s, mgrs, t.id),
                                                    f.e)}}}
           : f \in {ScanDir(d, get_global_inode_ptr(s, mgrs, t.id), filename)}}
         : t \in {traverse_path_till_parent(d, s, mgrs, path)},
           filename \in Back(path)}

\* FileSystem::delete_dir: outcomes [d, err, inodes, blocks].
delete_dir(d, s, mgrs, path) ==
    LET out(dd, err) == [d |-> dd, err |-> err, inodes |-> <<>>, blocks |-> <<>>]
    IN (IF Len(path) = 0 THEN {out(d, "crash")} ELSE {}) \cup UNION {
         IF t.err # "" THEN {out(d, t.err)}
         ELSE IF get_global_inode_ptr(s, mgrs, t.id) = -1 THEN {out(d, "OutOfRange")}
         ELSE UNION {
           IF f.kind = "throw" THEN {out(d, "out_of_range")}
           ELSE IF f.kind = "none" THEN {out(d, "DirectoryNotFound")}
           ELSE IF get_global_inode_ptr(s, mgrs, d[E_inode_id(f.e)]) = -1
                THEN {out(d, "OutOfRange")}
           ELSE IF d[I_file_type(get_global_inode_ptr(s, mgrs, d[E_inode_id(f.e)]))]
                   # FS_DIRECTORY
                THEN {out(d, "NotADirectory")}
           ELSE {IF r.err # "" THEN out(r.d, r.err)
                 ELSE out(WipeEntry(r.d, get_global_inode_ptr(s, mgrs, t.id), f.e), "")
                 : r \in recursive_resource_release(d, s, mgrs, d[E_inode_id(f.e)], 1)}
           : f \in {ScanDir(d, get_global_inode_ptr(s, mgrs, t.id), filename)}}
         : t \in {traverse_path_till_parent(d, s, mgrs, path)},
           filename \in Back(path)}

\* The shell's rm: FileSystem::delete_file.
rm ==
    /\ nops < MaxOps
    /\ nops' = nops + 1
    /\ \E path \in Paths :
       \E r \in delete_file(disk, sb, block_group_managers, path) :
          AfterCall(r, "delete_file", path, <<>>)

\* The shell's rmdir: FileSystem::delete_dir.
rmdir ==
    /\ nops < MaxOps
    /\ nops' = nops + 1
    /\ \E path \in Paths :
       \E r \in delete_dir(disk, sb, block_group_managers, path) :
          AfterCall(r, "delete_dir", path, <<>>)

----------------------------------------------------------------------------
(* FileSystem: read and write.                                             *)

\* max_size = 12 * disk.get_block_size()
max_size == NDIRECT * BLOCK_SIZE

\* FileSystem::read_direct_block_to_buffer into a zeroed buffer of max_size
\* bytes: [data, err].
read_direct_block_to_buffer(d, file) ==
    The({IF FirstBad(d, file, m) < m THEN [data |-> <<>>, err |-> "out_of_range"]
         ELSE [data |-> [k \in 1 .. max_size |->
                            IF (k - 1) \div BLOCK_SIZE < m
                            THEN d[d[I_direct_blocks(file, (k - 1) \div BLOCK_SIZE)]
                                     * BLOCK_SIZE + ((k - 1) % BLOCK_SIZE)]
                            ELSE 0],
               err |-> ""]
         : m \in {ScanLen(d, file)}})

\* FileSystem::read_file from the parent lookup on, for a path with at least
\* one component: [data, err].
read_file(d, s, mgrs, path) ==
    LET fail(err) == [data |-> <<>>, err |-> err]
    IN The({
         IF t.err # "" THEN fail(t.err)
         ELSE IF get_global_inode_ptr(s, mgrs, t.id) = -1 THEN fail("OutOfRange")
         ELSE The({
           IF f.err # "" THEN fail(f.err)
           ELSE IF f.id = 0 THEN fail("FileNotFound")
           ELSE IF get_global_inode_ptr(s, mgrs, f.id) = -1 THEN fail("OutOfRange")
           ELSE read_direct_block_to_buffer(d, get_global_inode_ptr(s, mgrs, f.id))
           : f \in {find_inode_in_dir(d, get_global_inode_ptr(s, mgrs, t.id),
                                      path[Len(path)])}})
         : t \in {traverse_path_till_parent(d, s, mgrs, path)}})

\* The shell's read: FileSystem::read_file.  With no component the call
\* crashes on tokenized_path.back() or reads the file that the string it
\* got names in the root.
read ==
    /\ nops < MaxOps
    /\ nops' = nops + 1
    /\ \E path \in Paths :
       \/ /\ Len(path) = 0
          /\ ret' = [op |-> "read_file", path |-> path, err |-> "crash",
                     data |-> <<>>, inodes |-> <<>>, blocks |-> <<>>]
          /\ \E h \in Indeterminate : sb' = NewSuperBlock(h)
          /\ block_group_managers' = <<>>
          /\ session' = RootSession
          /\ UNCHANGED <<disk, meta>>
       \/ \E filename \in Back(path) :
          \E r \in {read_file(disk, sb, block_group_managers,
                              IF Len(path) = 0 THEN <<filename>> ELSE path)} :
             /\ ret' = [op |-> "read_file", path |-> path, err |-> r.err,
                        data |-> r.data, inodes |-> <<>>, blocks |-> <<>>]
             /\ UNCHANGED <<disk, sb, block_group_managers, session, meta>>

----------------------------------------------------------------------------
(* FileSystem: list.                                                       *)

\* std::string(entries[i].name): the bytes of buf (1-based) from position
\* pos up to the first NUL; the zero-filled buffer ends the string at the
\* latest.
CString(buf, pos) ==
    The({SubSeq(buf, pos, stop - 1)
         : stop \in {Least({k \in pos .. Len(buf) : buf[k] = 0} \cup {Len(buf) + 1})}})

\* Step 3 of list_dir: raw_buffer read as one DirEntry array of
\* max_size / sizeof(DirEntry) slots; the names of the slots in use.
ParseBuffer(buf) ==
    The({[k \in 1 .. Len(used) |-> CString(buf, used[k] * DIRENT_SIZE + 3)]
         : used \in {SelectSeq([i \in 1 .. (Len(buf) \div DIRENT_SIZE) |-> i - 1],
                               LAMBDA i : buf[i * DIRENT_SIZE + 1] # 0)}})

\* A list_dir that parses the blocks of whatever inode the path names,
\* without the file_type test.
ListTargetAnyType(d, s, mgrs, target_id) ==
    LET fail(err) == [data |-> <<>>, err |-> err]
    IN IF target_id = 0 THEN fail("DirectoryNotFound")
       ELSE IF get_global_inode_ptr(s, mgrs, target_id) = -1 THEN fail("OutOfRange")
       ELSE The({IF b.err # "" THEN fail(b.err)
                 ELSE [data |-> ParseBuffer(b.data), err |-> ""]
                 : b \in {read_direct_block_to_buffer(d,
                              get_global_inode_ptr(s, mgrs, target_id))}})

\* list_dir from the check of target_id on: [data, err].
ListTarget(d, s, mgrs, target_id) ==
    LET fail(err) == [data |-> <<>>, err |-> err]
    IN IF target_id = 0 THEN fail("DirectoryNotFound")
       ELSE IF get_global_inode_ptr(s, mgrs, target_id) = -1 THEN fail("OutOfRange")
       ELSE IF d[I_file_type(get_global_inode_ptr(s, mgrs, target_id))] # FS_DIRECTORY
       THEN fail("NotADirectory")
       ELSE The({IF b.err # "" THEN fail(b.err)
                 ELSE [data |-> ParseBuffer(b.data), err |-> ""]
                 : b \in {read_direct_block_to_buffer(d,
                              get_global_inode_ptr(s, mgrs, target_id))}})

\* FileSystem::list_dir: [data, err], data being the list of names.
list_dir(d, s, mgrs, path) ==
    LET fail(err) == [data |-> <<>>, err |-> err]
    IN IF Len(path) = 0 THEN ListTarget(d, s, mgrs, s.home_dir_inode)
       ELSE The({
         IF t.err # "" THEN fail(t.err)
         ELSE IF get_global_inode_ptr(s, mgrs, t.id) = -1 THEN fail("OutOfRange")
         ELSE The({
           IF f.err # "" THEN fail(f.err)
           ELSE ListTarget(d, s, mgrs, f.id)
           : f \in {find_inode_in_dir(d, get_global_inode_ptr(s, mgrs, t.id),
                                      path[Len(path)])}})
         : t \in {traverse_path_till_parent(d, s, mgrs, path)}})

\* The shell's ls: FileSystem::list_dir.
ls ==
    /\ nops < MaxOps
    /\ nops' = nops + 1
    /\ \E path \in Paths :
       \E r \in {list_dir(disk, sb, block_group_managers, path)} :
          /\ ret' = [op |-> "list_dir", path |-> path, err |-> r.err,
                     data |-> r.data, inodes |-> <<>>, blocks |-> <<>>]
          /\ UNCHANGED <<disk, sb, block_group_managers, session, meta>>

\* Access bits of the permission check.
ACCESS_X == 1
ACCESS_W == 2
ACCESS_R == 4

\* bit k of a 3-bit triad
TriadBit(t, k) == (t \div Pow2(k)) % 2 = 1

\* the owner, group and other triads of a permissions word
OwnerBits(permissions) == (permissions \div 64) % 8
GroupBits(permissions) == (permissions \div 8) % 8
OtherBits(permissions) == permissions % 8

\* An access check that grants what any triad applying to the caller grants.
checkUnionTriads(m, access_bits, sess) ==
    \/ sess.uid = 0
    \/ \E k \in 0 .. 2 :
          /\ TriadBit(access_bits, k)
          /\ \/ m.uid = sess.uid /\ TriadBit(OwnerBits(m.permissions), k)
             \/ m.gid = sess.gid /\ TriadBit(GroupBits(m.permissions), k)
             \/ TriadBit(OtherBits(m.permissions), k)

\* check(inode, access_bits): root override, else the triad selected for
\* the caller ANDed with the requested access.
check(m, access_bits, sess) ==
    IF sess.uid = 0 THEN TRUE
    ELSE \E selected_bits \in
              {IF m.uid = sess.uid THEN OwnerBits(m.permissions)
               ELSE IF m.gid = sess.gid THEN GroupBits(m.permissions)
               ELSE OtherBits(m.permissions)} :
            \E k \in 0 .. 2 : TriadBit(selected_bits, k) /\ TriadBit(access_bits, k)

\* Payloads of write_file: n bytes that alternate 'B', 'A', or n bytes 0x17.
DataLens == {0, 1, BLOCK_SIZE + 1, max_size, max_size + 1}
Payloads(n) == {[k \in 1 .. n |-> 65 + (k % 2)], [k \in 1 .. n |-> 23]}

\* ceil(n / BLOCK_SIZE)
BlocksFor(n) == (n + BLOCK_SIZE - 1) \div BLOCK_SIZE

\* write_file's size check: k = ceil(|data| / BLOCK_SIZE) must not exceed
\* the number of direct pointers.
WithinLimit(n) == BlocksFor(n) <= NDIRECT

\* write_file, shrink: free and clear the pointers i.. of the inode.
RECURSIVE ShrinkFrom(_, _, _, _, _)
ShrinkFrom(d, s, mgrs, inode, i) ==
    IF i >= NDIRECT THEN {[d |-> d, err |-> ""]}
    ELSE IF d[I_direct_blocks(inode, i)] = 0 THEN ShrinkFrom(d, s, mgrs, inode, i + 1)
    ELSE IF d[I_direct_blocks(inode, i)] \div s.blocks_per_group >= Len(mgrs)
    THEN {[d |-> d, err |-> "OutOfRange"]}
    ELSE UNION {ShrinkFrom(d1, s, mgrs, inode, i + 1)
                : d1 \in {Store(free_block(d, s,
                                   d[I_direct_blocks(inode, i)] \div s.blocks_per_group,
                                   d[I_direct_blocks(inode, i)]),
                                I_direct_blocks(inode, i), 0)}}

\* write_file, store: blocks i .. k-1 of the payload; StoreInBlock copies
\* block i of the payload into block b and goes on.
RECURSIVE StoreFrom(_, _, _, _, _, _, _, _)
StoreInBlock(d, s, mgrs, inode, data, k, i, blocks, b) ==
    IF ~BlockInRange(b) THEN {[d |-> d, err |-> "OutOfRange", blocks |-> blocks]}
    ELSE UNION {StoreFrom(d2, s, mgrs, inode, data, k, i + 1, blocks)
                : d2 \in {Poke(d, b * BLOCK_SIZE,
                               SubSeq(data, i * BLOCK_SIZE + 1,
                                      i * BLOCK_SIZE
                                      + Min(BLOCK_SIZE, Len(data) - i * BLOCK_SIZE)))}}

StoreFrom(d, s, mgrs, inode, data, k, i, blocks) ==
    IF i >= k THEN {[d |-> d, err |-> "", blocks |-> blocks]}
    ELSE IF d[I_direct_blocks(inode, i)] # 0
    THEN StoreInBlock(d, s, mgrs, inode, data, k, i, blocks, d[I_direct_blocks(inode, i)])
    ELSE IF d[I_id(inode)] \div s.inodes_per_group >= Len(mgrs)
    THEN {[d |-> d, err |-> "OutOfRange", blocks |-> blocks]}
    ELSE UNION {
           IF a.err # "" THEN {[d |-> a.d, err |-> a.err, blocks |-> blocks]}
           ELSE IF a.id = -1 THEN {[d |-> a.d, err |-> "DiskFull", blocks |-> blocks]}
           ELSE UNION {StoreInBlock(d1, s, mgrs, inode, data, k, i,
                                    Append(blocks, a.id), a.id)
                       : d1 \in {Store(a.d, I_direct_blocks(inode, i), a.id)}}
           : a \in allocate_block(d, s, d[I_id(inode)] \div s.inodes_per_group)}

\* The part of write_file that runs once the target inode is resolved;
\* allowed is the outcome of the W check on it.
WriteInode(d, s, mgrs, inode, data, allowed) ==
    LET out(dd, err, bl) == [d |-> dd, err |-> err, inodes |-> <<>>, blocks |-> bl]
    IN IF d[I_file_type(inode)] # FS_FILE THEN {out(d, "NotAFile", <<>>)}
       ELSE IF ~allowed THEN {out(d, "PermissionDenied", <<>>)}
       ELSE IF ~WithinLimit(Len(data)) THEN {out(d, "FileTooLarge", <<>>)}
       ELSE UNION {
              IF sh.err # "" THEN {out(sh.d, sh.err, <<>>)}
              ELSE {IF st.err # "" THEN out(st.d, st.err, st.blocks)
                    ELSE out(Store(st.d, I_file_size(inode), Len(data) % 256),
                             "", st.blocks)
                    : st \in StoreFrom(sh.d, s, mgrs, inode, data,
                                       BlocksFor(Len(data)), 0, <<>>)}
              : sh \in ShrinkFrom(d, s, mgrs, inode, BlocksFor(Len(data)))}

\* write_file(path, data): outcomes [d, err, inodes, blocks]; sess is the
\* session and m the owner fields of the inodes.
write_file(d, s, mgrs, path, data, sess, m) ==
    LET fail(err) == {[d |-> d, err |-> err, inodes |-> <<>>, blocks |-> <<>>]}
    IN IF Len(path) = 0 THEN fail("InvalidPath")
       ELSE UNION {
         IF t.err # "" THEN fail(t.err)
         ELSE IF get_global_inode_ptr(s, mgrs, t.id) = -1 THEN fail("OutOfRange")
         ELSE UNION {
           IF f.err # "" THEN fail(f.err)
           ELSE IF f.id = 0 THEN fail("FileNotFound")
           ELSE IF get_global_inode_ptr(s, mgrs, f.id) = -1 THEN fail("OutOfRange")
           ELSE WriteInode(d, s, mgrs, get_global_inode_ptr(s, mgrs, f.id), data,
                           check(m[f.id], ACCESS_W, sess))
           : f \in {find_inode_in_dir(d, get_global_inode_ptr(s, mgrs, t.id),
                                      path[Len(path)])}}
         : t \in {traverse_path_till_parent(d, s, mgrs, path)}}

\* The shell's write: write_file.
write ==
    /\ nops < MaxOps
    /\ nops' = nops + 1
    /\ \E path \in Paths, n \in DataLens :
       \E data \in Payloads(n) :
       \E r \in write_file(disk, sb, block_group_managers, path, data,
                           session, meta) :
          AfterCall(r, "write_file", path, data)

----------------------------------------------------------------------------
(* Session and object lifetime.                                            *)

\* A session start whose mount reloads the geometry but leaves the root
\* pointer as the constructor of the new object left it.
remountKeepsRootPointer ==
    /\ nops < MaxOps
    /\ nops' = nops + 1
    /\ session' = RootSession
    /\ UNCHANGED <<disk, meta>>
    /\ IF DiskSuperBlock(disk).magic_number # MAGIC_NUMBER
       THEN /\ \E h \in Indeterminate : sb' = NewSuperBlock(h)
            /\ block_group_managers' = <<>>
            /\ ret' = [NoRet EXCEPT !.op = "remount", !.err = "InvalidImage"]
       ELSE /\ \E h \in Indeterminate :
                  sb' = [DiskSuperBlock(disk) EXCEPT !.home_dir_inode = h]
            /\ block_group_managers' = Managers(DiskSuperBlock(disk))
            /\ ret' = [NoRet EXCEPT !.op = "remount"]

\* The end of a session and the start of the next one on the same image:
\* ~FileSystem, FileSystem::FileSystem over the same Disk, then mount().  The
\* superblock copy, the managers and the session identity of the old object
\* are gone; the image stays.
remount ==
    /\ nops < MaxOps
    /\ nops' = nops + 1
    /\ session' = RootSession
    /\ UNCHANGED <<disk, meta>>
    /\ IF DiskSuperBlock(disk).magic_number # MAGIC_NUMBER
       THEN /\ \E h \in Indeterminate : sb' = NewSuperBlock(h)
            /\ block_group_managers' = <<>>
            /\ ret' = [NoRet EXCEPT !.op = "remount", !.err = "InvalidImage"]
       ELSE /\ sb' = DiskSuperBlock(disk)
            /\ block_group_managers' = Managers(DiskSuperBlock(disk))
            /\ ret' = [NoRet EXCEPT !.op = "remount"]

\* The identities a session logs in with: (uid, gid).
Identities == {<<1, 1>>, <<2, 1>>, <<2, 2>>}

\* login(uid, gid)
login ==
    /\ nops < MaxOps
    /\ nops' = nops + 1
    /\ \E who \in Identities : session' = [uid |-> who[1], gid |-> who[2]]
    /\ ret' = [NoRet EXCEPT !.op = "login"]
    /\ UNCHANGED <<disk, sb, block_group_managers, meta>>

\* logout()
logout ==
    /\ nops < MaxOps
    /\ nops' = nops + 1
    /\ session' = RootSession
    /\ ret' = [NoRet EXCEPT !.op = "logout"]
    /\ UNCHANGED <<disk, sb, block_group_managers, meta>>

Next ==
    \/ mount
    \/ format
    \/ create_file
    \/ create_dir
    \/ rm
    \/ rmdir
    \/ read
    \/ write
    \/ ls
    \/ remount

Spec == Init /\ [][Next]_vars

\* The same program with sessions that log in and out.
NextSession ==
    \/ Next
    \/ login
    \/ logout

SpecSession == Init /\ [][NextSession]_vars

----------------------------------------------------------------------------
(* Filling and emptying one directory, as the mass-creation tests do.       *)

\* calls in one run of the filling program
MaxFill == 12

\* the single-byte names the filling loop goes through, in order
FillNames == {<<k>> : k \in 97 .. 107}

\* the inode that sb->home_dir_inode designates
RootInode == get_global_inode_ptr(sb, block_group_managers, sb.home_dir_inode)

\* the names of FillNames that the root has, resp. has not, by the scan
\* that create and delete make
FillPresent ==
    {n \in FillNames :
        ScanDir(disk, RootInode, n).kind = "found"}
FillAbsent ==
    {n \in FillNames :
        ScanDir(disk, RootInode, n).kind = "none"}

\* One round of the creation loop: create_file on the first name of the
\* sequence that the root does not hold.
fill ==
    /\ nops < MaxFill
    /\ nops' = nops + 1
    /\ RootInode # -1
    /\ FillAbsent # {}
    /\ \E path \in {<<<<Least({n[1] : n \in FillAbsent})>>>>} :
       \E r \in create_fs_entry(disk, sb, block_group_managers, path, FS_FILE) :
          AfterCall(r, "create_file", path, <<>>)

\* One round of the deletion loop: delete_file on a name that the root
\* holds.
unfill ==
    /\ nops < MaxFill
    /\ nops' = nops + 1
    /\ RootInode # -1
    /\ \E n \in FillPresent :
       \E r \in delete_file(disk, sb, block_group_managers, <<n>>) :
          AfterCall(r, "delete_file", <<n>>, <<>>)

NextFill ==
    \/ format
    \/ fill
    \/ unfill

SpecFill == Init /\ [][NextFill]_vars

----------------------------------------------------------------------------
(* The geometry that format and mount compute for devices of other sizes.   *)

\* block counts of the devices formatted
DeviceSizes == 1 .. (8 * GROUP_SIZE)

\* Step 2 of FileSystem::format on a device of n blocks.
FormatGeometry(s, n) ==
    [s EXCEPT !.magic_number = MAGIC_NUMBER,
              !.total_blocks = n,
              !.blocks_per_group = GROUP_SIZE,
              !.inodes_per_group = GROUP_SIZE,
              !.total_inodes = (n \div GROUP_SIZE) * GROUP_SIZE]

\* Steps 2 to 5 of FileSystem::format on a device of n blocks, as far as
\* the superblock and the manager vector go (the image of that device is
\* not represented): the geometry, the managers that the forced mount
\* builds, and block_group_managers[0], which crashes on an empty vector.
\* ret.data records n.
formatSized ==
    /\ nops < MaxOps
    /\ nops' = nops + 1
    /\ UNCHANGED <<disk, session, meta>>
    /\ \E n \in DeviceSizes :
       \E s2 \in {FormatGeometry(sb, n)} :
          IF Len(Managers(s2)) = 0
          THEN /\ \E h \in Indeterminate : sb' = NewSuperBlock(h)
               /\ block_group_managers' = <<>>
               /\ ret' = [NoRet EXCEPT !.op = "format", !.err = "crash",
                                       !.data = <<n>>]
          ELSE /\ sb' = s2
               /\ block_group_managers' = Managers(s2)
               /\ ret' = [NoRet EXCEPT !.op = "format", !.data = <<n>>]

NextGeometry == formatSized

SpecGeometry == Init /\ [][NextGeometry]_vars

----------------------------------------------------------------------------
(* The create / write / delete cycle of the allocation-loop test.           *)

\* One pass of the loop body on path with payload data: create_file, then
\* write_file, then delete_file, each on the image the call before left;
\* the first call that throws ends the pass (the loop's read_file between
\* write and delete writes nothing and is the action read).  Outcomes [d, err, inodes,
\* blocks, m]: inodes and blocks are what the create allocated (the new
\* inode, a block attached to the parent), m the owner fields afterwards.
CycleOutcomes(d, s, mgrs, path, data, sess, m) ==
    UNION {
      UNION {
        IF c.err # ""
        THEN {[d |-> c.d, err |-> c.err, inodes |-> c.inodes,
               blocks |-> c.blocks, m |-> m1]}
        ELSE UNION {
          IF w.err # ""
          THEN {[d |-> w.d, err |-> w.err, inodes |-> c.inodes,
                 blocks |-> c.blocks, m |-> m1]}
          ELSE {[d |-> x.d, err |-> x.err, inodes |-> c.inodes,
                 blocks |-> c.blocks, m |-> m1]
                : x \in delete_file(w.d, s, mgrs, path)}
          : w \in write_file(c.d, s, mgrs, path, data, sess, m1)}
        : m1 \in {IF Len(c.inodes) > 0
                  THEN [m EXCEPT ![c.inodes[1]] = NewMeta(sess, FS_FILE)]
                  ELSE m}}
      : c \in create_fs_entry(d, s, mgrs, path, FS_FILE)}

\* One iteration of the loop of test_allocation_loop.
cycle ==
    /\ nops < MaxOps
    /\ nops' = nops + 1
    /\ \E path \in NonEmptyPaths, n \in {BLOCK_SIZE, BLOCK_SIZE + 1} :
       \E data \in Payloads(n) :
       \E r \in CycleOutcomes(disk, sb, block_group_managers, path, data,
                               session, meta) :
          /\ disk' = r.d
          /\ meta' = r.m
          /\ ret' = [op |-> "cycle", path |-> path, err |-> r.err, data |-> data,
                     inodes |-> r.inodes, blocks |-> r.blocks]
          /\ IF r.err = "crash"
             THEN /\ \E h \in Indeterminate : sb' = NewSuperBlock(h)
                  /\ block_group_managers' = <<>>
                  /\ session' = RootSession
             ELSE UNCHANGED <<sb, block_group_managers, session>>

\* The program of Spec with the cycle as one more call.
NextCycle ==
    \/ Next
    \/ cycle

SpecCycle == Init /\ [][NextCycle]_vars

----------------------------------------------------------------------------
(* The allocator by itself: BlockGroupManager's public calls on any group. *)

\* Calls made on the managers in one run.
MaxAlloc == 10

\* Superblocks a manager is built over: two groups on the device, and a
\* number of inodes per group that is or is not a multiple of 8.
AllocGeometries ==
    {[magic_number |-> MAGIC_NUMBER, total_inodes |-> 2 * ipg,
      total_blocks |-> BLOCK_COUNT, inodes_per_group |-> ipg,
      blocks_per_group |-> BLOCK_COUNT \div 2, home_dir_inode |-> 0]
     : ipg \in {BLOCK_COUNT \div 2, BLOCK_COUNT \div 2 + 1}}

\* A zeroed device and one manager per group, as mount builds them.
InitAlloc ==
    /\ disk = [x \in DiskBytes |-> 0]
    /\ sb \in AllocGeometries
    /\ block_group_managers = Managers(sb)
    /\ ret = NoRet
    /\ nops = 0
    /\ session = RootSession
    /\ meta = [id \in MetaIds |-> NoMeta]

\* block_group_managers[g].allocate_inode()
allocInode ==
    /\ nops < MaxAlloc
    /\ nops' = nops + 1
    /\ \E k \in 1 .. Len(block_group_managers) :
       \E g \in {block_group_managers[k]} :
       \E a \in allocate_inode(disk, sb, g) :
          /\ disk' = a.d
          /\ ret' = [NoRet EXCEPT !.op = "allocate_inode", !.data = <<g>>,
                                  !.err = IF a.id = -1 THEN "NoSpace" ELSE "",
                                  !.inodes = IF a.id = -1 THEN <<>> ELSE <<a.id>>]
    /\ UNCHANGED <<sb, block_group_managers, session, meta>>

\* block_group_managers[g].free_inode(id) on an inode of the group that is
\* allocated
freeInode ==
    /\ nops < MaxAlloc
    /\ nops' = nops + 1
    /\ \E k \in 1 .. Len(block_group_managers) :
       \E g \in {block_group_managers[k]} :
       \E id \in (g * sb.inodes_per_group) .. ((g + 1) * sb.inodes_per_group - 1) :
          /\ is_inode_allocated(disk, sb, g, id)
          /\ disk' = free_inode(disk, sb, g, id)
          /\ ret' = [NoRet EXCEPT !.op = "free_inode", !.data = <<g>>,
                                  !.inodes = <<id>>]
    /\ UNCHANGED <<sb, block_group_managers, session, meta>>

\* block_group_managers[g].allocate_block()
allocBlock ==
    /\ nops < MaxAlloc
    /\ nops' = nops + 1
    /\ \E k \in 1 .. Len(block_group_managers) :
       \E g \in {block_group_managers[k]} :
       \E a \in allocate_block(disk, sb, g) :
          /\ disk' = a.d
          /\ ret' = [NoRet EXCEPT !.op = "allocate_block", !.data = <<g>>,
                                  !.err = IF a.err # "" THEN a.err
                                          ELSE IF a.id = -1 THEN "NoSpace" ELSE "",
                                  !.blocks = IF a.id = -1 THEN <<>> ELSE <<a.id>>]
    /\ UNCHANGED <<sb, block_group_managers, session, meta>>

\* block_group_managers[g].free_block(b) on a block of the group, other
\* than its first, whose bit is set
freeBlock ==
    /\ nops < MaxAlloc
    /\ nops' = nops + 1
    /\ \E k \in 1 .. Len(block_group_managers) :
       \E g \in {block_group_managers[k]} :
       \E b \in (g * sb.blocks_per_group + 1) .. ((g + 1) * sb.blocks_per_group - 1) :
          /\ get_bit(disk, get_block_bitmap_ptr(sb, g), b % sb.blocks_per_group)
          /\ disk' = free_block(disk, sb, g, b)
          /\ ret' = [NoRet EXCEPT !.op = "free_block", !.data = <<g>>,
                                  !.blocks = <<b>>]
    /\ UNCHANGED <<sb, block_group_managers, session, meta>>

NextAlloc ==
    \/ allocInode
    \/ freeInode
    \/ allocBlock
    \/ freeBlock

SpecAlloc == InitAlloc /\ [][NextAlloc]_vars

----------------------------------------------------------------------------
(* Names of every length in the root directory.                            *)

\* File names shorter than the name buffer, of its length less one, of its
\* length (two of them, alike in the bytes that are stored), longer, and of
\* 256 bytes, where a one-byte length wraps.
LongNames ==
    {[k \in 1 .. n |-> 97] : n \in {1, NAME_MAX - 1, NAME_MAX, NAME_MAX + 1, 256}}
    \cup {[k \in 1 .. NAME_MAX |-> IF k = NAME_MAX THEN 98 ELSE 97]}

\* create_file("/" + name)
createNamed ==
    /\ nops < MaxOps
    /\ nops' = nops + 1
    /\ \E name \in LongNames :
       \E r \in create_fs_entry(disk, sb, block_group_managers, <<name>>, FS_FILE) :
          AfterCall(r, "create_file", <<name>>, <<>>)

\* delete_file("/" + name)
removeNamed ==
    /\ nops < MaxOps
    /\ nops' = nops + 1
    /\ \E name \in LongNames :
       \E r \in delete_file(disk, sb, block_group_managers, <<name>>) :
          AfterCall(r, "delete_file", <<name>>, <<>>)

NextNames ==
    \/ format
    \/ createNamed
    \/ removeNamed

SpecNames == Init /\ [][NextNames]_vars

----------------------------------------------------------------------------
(* Building and cutting directory trees: longer runs of the four calls     *)
(* that change the namespace.                                              *)

\* Calls made in one run.
MaxTree == 5

\* create_file(path)
growFile ==
    /\ nops < MaxTree
    /\ nops' = nops + 1
    /\ \E path \in NonEmptyPaths :
       \E r \in create_fs_entry(disk, sb, block_group_managers, path, FS_FILE) :
          AfterCall(r, "create_file", path, <<>>)

\* create_dir(path)
growDir ==
    /\ nops < MaxTree
    /\ nops' = nops + 1
    /\ \E path \in NonEmptyPaths :
       \E r \in create_fs_entry(disk, sb, block_group_managers, path, FS_DIRECTORY) :
          AfterCall(r, "create_dir", path, <<>>)

\* delete_file(path)
cutFile ==
    /\ nops < MaxTree
    /\ nops' = nops + 1
    /\ \E path \in NonEmptyPaths :
       \E r \in delete_file(disk, sb, block_group_managers, path) :
          AfterCall(r, "delete_file", path, <<>>)

\* delete_dir(path)
cutDir ==
    /\ nops < MaxTree
    /\ nops' = nops + 1
    /\ \E path \in NonEmptyPaths :
       \E r \in delete_dir(disk, sb, block_group_managers, path) :
          AfterCall(r, "delete_dir", path, <<>>)

NextTree ==
    \/ format
    \/ growFile
    \/ growDir
    \/ cutFile
    \/ cutDir

SpecTree == Init /\ [][NextTree]_vars

----------------------------------------------------------------------------
(* The namespace seen from the root, as the on-disk invariants speak of it. *)

\* T = ceil(inodes_per_group * sizeof(Inode) / BLOCK_SIZE), the length of a
\* group's inode table in blocks, and the first block after the table.
InodeTableBlocks(s) == (s.inodes_per_group * INODE_SIZE + BLOCK_SIZE - 1) \div BLOCK_SIZE
FirstDataBlock(s) == INODE_TABLE_OFFSET + InodeTableBlocks(s)

\* A formatted and mounted image: the managers exist and the superblock's
\* root pointer designates a directory inode.
Formatted ==
    /\ Len(block_group_managers) > 0
    /\ get_global_inode_ptr(sb, block_group_managers, sb.home_dir_inode) # -1
    /\ disk[I_file_type(get_global_inode_ptr(sb, block_group_managers,
                                             sb.home_dir_inode))] = FS_DIRECTORY

\* the inode ids of the mounted groups
InodeIds ==
    {id \in 0 .. (sb.total_inodes - 1) :
        get_global_inode_ptr(sb, block_group_managers, id) # -1}

InodePtr(id) == get_global_inode_ptr(sb, block_group_managers, id)

\* the non-zero direct_blocks of inode id that lie on the disk
BlocksOf(id) ==
    {disk[I_direct_blocks(InodePtr(id), i)] : i \in 0 .. (NDIRECT - 1)}
    \cap (1 .. (BLOCK_COUNT - 1))

\* byte offsets of the non-empty entries in the blocks of inode id
EntriesOf(id) ==
    {e \in {EntryOff(b, j) : b \in BlocksOf(id), j \in 0 .. (max_entries - 1)} :
        disk[E_inode_id(e)] # 0}

\* inodes referenced from directory id
ChildrenOf(id) ==
    IF disk[I_file_type(InodePtr(id))] = FS_DIRECTORY
    THEN {disk[E_inode_id(e)] : e \in EntriesOf(id)} \cap InodeIds
    ELSE {}

RECURSIVE ReachFrom(_, _)
ReachFrom(S, n) ==
    IF n = 0 THEN S
    ELSE The({IF more \subseteq S THEN S ELSE ReachFrom(S \cup more, n - 1)
              : more \in {UNION {ChildrenOf(id) : id \in S}}})

\* live inodes: the root and whatever a non-empty entry of a live directory
\* references
LiveInodes == ReachFrom({sb.home_dir_inode}, sb.total_inodes)

\* the (inode, index) pairs of the non-zero direct_blocks of live inodes
LivePointers ==
    {pr \in LiveInodes \X (0 .. (NDIRECT - 1)) :
        disk[I_direct_blocks(InodePtr(pr[1]), pr[2])] # 0}

PointerValue(pr) == disk[I_direct_blocks(InodePtr(pr[1]), pr[2])]

\* bit b of the data-block bitmap of b's group
BlockBit(b) ==
    get_bit(disk, get_block_bitmap_ptr(sb, b \div sb.blocks_per_group),
            b % sb.blocks_per_group)

\* the calls that change the namespace
NamespaceOps == {"format", "create_file", "create_dir", "delete_file", "delete_dir"}

----------------------------------------------------------------------------
(* Properties.                                                             *)

\* C1: on a formatted image, after format and any create_file / create_dir /
\* delete_file / delete_dir, the inode-bitmap bit of an inode is set if and
\* only if the inode is live (the root, or referenced by a non-empty entry
\* of a live directory).
C1_InodeBitmapIffLive ==
    (Formatted /\ ret.op \in NamespaceOps) =>
        \A id \in InodeIds :
            is_inode_allocated(disk, sb, id \div sb.inodes_per_group, id)
            <=> id \in LiveInodes

\* C2: on a formatted image, the data-bitmap bit of a block is set if and
\* only if the block is metadata of group 0 (superblock, bitmaps, inode
\* table) or a direct_blocks entry of a live inode points to it.
C2_BlockBitmapIffOwned ==
    Formatted =>
        \A b \in 0 .. (Len(block_group_managers) * sb.blocks_per_group - 1) :
            BlockBit(b) <=> \/ b < FirstDataBlock(sb)
                            \/ \E pr \in LivePointers : PointerValue(pr) = b

\* C3: every block allocate_block returned from group 0 during the last
\* call has local index >= 3 + T: never the superblock, a bitmap or an
\* inode-table block.
C3_AllocateBlockSkipsMetadata ==
    \A k \in 1 .. Len(ret.blocks) :
        ret.blocks[k] \div sb.blocks_per_group = 0
        => ret.blocks[k] >= FirstDataBlock(sb)

\* C4: on a formatted image, every non-zero direct_blocks entry of a live
\* inode points to a block whose data-bitmap bit is set, and no block id
\* occurs in two such entries (of different inodes or of the same one).
C4_LiveBlocksMarkedAndUnshared ==
    Formatted =>
        /\ \A pr \in LivePointers :
              BlockInRange(PointerValue(pr)) /\ BlockBit(PointerValue(pr))
        /\ \A p1 \in LivePointers, p2 \in LivePointers :
              p1 # p2 => PointerValue(p1) # PointerValue(p2)

\* C5: on a formatted image, every non-empty entry in a block of a live
\* directory references an inode whose inode-bitmap bit is set and whose id
\* field equals the entry's inode_id.
C5_EntriesReferenceLiveInodes ==
    Formatted =>
        \A dir \in LiveInodes :
            disk[I_file_type(InodePtr(dir))] = FS_DIRECTORY =>
                \A e \in EntriesOf(dir) :
                    /\ disk[E_inode_id(e)] \in InodeIds
                    /\ is_inode_allocated(disk, sb,
                          disk[E_inode_id(e)] \div sb.inodes_per_group,
                          disk[E_inode_id(e)])
                    /\ disk[I_id(InodePtr(disk[E_inode_id(e)]))] = disk[E_inode_id(e)]

\* C6: no allocate_inode call, in format or in a create, returns inode id 0.
C6_InodeZeroNeverAllocated ==
    \A k \in 1 .. Len(ret.inodes) : ret.inodes[k] >= 1

\* The inode a path names, by the lookups that read_file and write_file make
\* (parent by traverse_path_till_parent, last component by
\* find_inode_in_dir): its byte offset, or -1 when the path does not resolve.
TargetPtr(path) ==
    The({IF Len(path) = 0 \/ t.err # "" \/ InodePtr(t.id) = -1 THEN -1
         ELSE The({IF f.err # "" \/ f.id = 0 THEN -1 ELSE InodePtr(f.id)
                   : f \in {find_inode_in_dir(disk, InodePtr(t.id), path[Len(path)])}})
         : t \in {traverse_path_till_parent(disk, sb, block_group_managers, path)}})

\* path names an existing regular file
IsRegularFile(path) ==
    /\ Len(path) > 0
    /\ TargetPtr(path) # -1
    /\ disk[I_file_type(TargetPtr(path))] = FS_FILE

\* the bytes of name as a NUL-terminated string in a NAME_MAX-byte buffer
\* hold exactly name
NameIs(e, name) ==
    /\ Len(name) <= NAME_MAX
    /\ \A k \in 1 .. Len(name) : disk[E_name(e) + k - 1] = name[k]
    /\ Len(name) < NAME_MAX => disk[E_name(e) + Len(name)] = 0

\* the directory that traverse_path_till_parent resolves for path holds, in
\* one of its blocks, a non-empty entry named last(path)
ParentHasEntry(path) ==
    /\ Len(path) > 0
    /\ \E t \in {traverse_path_till_parent(disk, sb, block_group_managers, path)} :
          /\ t.err = ""
          /\ InodePtr(t.id) # -1
          /\ disk[I_file_type(InodePtr(t.id))] = FS_DIRECTORY
          /\ \E e \in EntriesOf(t.id) : NameIs(e, path[Len(path)])

\* C7: a read_file(p) that immediately follows a successful write_file(p, D)
\* and succeeds returns exactly D.
C7_WriteThenReadRoundTrip ==
    [][(/\ ret.op = "write_file" /\ ret.err = ""
        /\ ret'.op = "read_file" /\ ret'.err = ""
        /\ ret'.path = ret.path)
       => ret'.data = ret.data]_vars

\* C8: a successful read_file(p) returns exactly file_size bytes, file_size
\* being the size field of the inode p names (so nothing for a file that
\* was created and never written).
C8_ReadReturnsFileSizeBytes ==
    (ret.op = "read_file" /\ ret.err = "" /\ TargetPtr(ret.path) # -1)
    => Len(ret.data) = disk[I_file_size(TargetPtr(ret.path))]

\* C9: on an existing regular file, write_file with more than
\* NDIRECT * BLOCK_SIZE bytes fails with FileTooLarge and leaves the image
\* (sizes, block pointers, contents, bitmaps) as it was; with exactly
\* NDIRECT * BLOCK_SIZE bytes it is not rejected for its size: it succeeds
\* unless the allocator has no block to give.
C9_WriteSizeLimit ==
    [][(ret'.op = "write_file" /\ IsRegularFile(ret'.path))
       => /\ Len(ret'.data) > max_size
             => ret'.err = "FileTooLarge" /\ disk' = disk
          /\ Len(ret'.data) = max_size
             => ret'.err \in {"", "DiskFull"}]_vars

\* C10: create_file(p) or create_dir(p), when the parent directory already
\* holds an entry named last(p), fails with AlreadyExists and changes
\* nothing: the image (bitmaps, inodes, directory blocks) and the mounted
\* state are as before.
C10_CreateExistingFails ==
    [][(ret'.op \in {"create_file", "create_dir"} /\ ParentHasEntry(ret'.path))
       => /\ ret'.err = "AlreadyExists"
          /\ disk' = disk
          /\ sb' = sb
          /\ block_group_managers' = block_group_managers]_vars

\* C10 witness: a create on a name the parent directory holds was rejected
\* with AlreadyExists.
C10_Witness ==
    /\ ret.op \in {"create_file", "create_dir"}
    /\ ret.err = "AlreadyExists"
    /\ ParentHasEntry(ret.path)

\* C11: after a format that completed, on a fresh image or on a used one,
\* list_dir("/") succeeds with an empty list, and the root inode (the one
\* format allocated) is a directory of size 0 with every direct_blocks
\* entry 0, uid = gid = 0 and permissions 0o755.
C11_FormatLeavesEmptyRoot ==
    (ret.op = "format" /\ ret.err = "") =>
        /\ list_dir(disk, sb, block_group_managers, <<>>) = [data |-> <<>>, err |-> ""]
        /\ \A root \in {InodePtr(ret.inodes[1])} :
              /\ root # -1
              /\ disk[I_file_type(root)] = FS_DIRECTORY
              /\ disk[I_file_size(root)] = 0
              /\ \A i \in 0 .. (NDIRECT - 1) : disk[I_direct_blocks(root, i)] = 0
        /\ meta[ret.inodes[1]] = [uid |-> 0, gid |-> 0, permissions |-> DirPermissions]

\* C12: mount fails with InvalidImage exactly when the magic field of block
\* 0 differs from the magic number, and otherwise succeeds: an all-zero
\* image is rejected; a completed format leaves the magic number in block 0,
\* no later call removes it, so every image format completed on is accepted.
C12_MountRejectsExactlyBadMagic ==
    [][/\ ret'.op = "mount"
          => /\ ret'.err = "InvalidImage" <=> disk[0] # MAGIC_NUMBER
             /\ ret'.err \in {"", "InvalidImage"}
             /\ (\A x \in DiskBytes : disk[x] = 0) => ret'.err = "InvalidImage"
       /\ (ret'.op = "format" /\ ret'.err = "") => disk'[0] = MAGIC_NUMBER
       /\ disk[0] = MAGIC_NUMBER => disk'[0] = MAGIC_NUMBER]_vars

\* C12 witness: mount accepted an image that was formatted and whose root
\* directory has since received an entry.
C12_Witness ==
    /\ ret.op = "mount"
    /\ ret.err = ""
    /\ Formatted
    /\ EntriesOf(sb.home_dir_inode) # {}

\* What list_dir and read_file return on every path.
Observe(d, s, mgrs) ==
    [p \in Paths |->
        [list |-> list_dir(d, s, mgrs, p),
         read |-> IF Len(p) = 0 THEN [data |-> <<>>, err |-> "InvalidPath"]
                  ELSE read_file(d, s, mgrs, p)]]

\* C13: when a mounted FileSystem object is discarded and a new one mounts
\* the same image, the mount succeeds, changes no byte of the image, and
\* list_dir and read_file return on every path what they returned just
\* before the old object was discarded.
C13_RemountObservesSame ==
    [][(ret'.op = "remount" /\ Len(block_group_managers) > 0)
       => /\ ret'.err = ""
          /\ disk' = disk
          /\ Observe(disk', sb', block_group_managers')
             = Observe(disk, sb, block_group_managers)]_vars

\* C13 witness: a new session mounted an image in which a listing and a
\* read succeed on some path.
C13_Witness ==
    /\ ret.op = "remount"
    /\ ret.err = ""
    /\ \E p \in NonEmptyPaths :
          /\ read_file(disk, sb, block_group_managers, p).err = ""
          /\ \E q \in Paths :
                /\ list_dir(disk, sb, block_group_managers, q).err = ""
                /\ list_dir(disk, sb, block_group_managers, q).data # <<>>

\* Owner fields the access check is tried on: every owner and group among
\* the identities, with permission words in which the three triads differ
\* (0, 0o755, 0o644, 0o077, 0o707, 0o770, 0o241, 0o124).
PermissionWords == {0, DirPermissions, FilePermissions, 63, 455, 504, 161, 84}
MetaSpace ==
    [uid : 0 .. 2, gid : 0 .. 2, permissions : PermissionWords]

\* C14: the access check permits iff current_uid = 0 or the one triad
\* selected for the caller (owner bits if inode.uid = current_uid, else
\* group bits if inode.gid = current_gid, else other bits) holds the
\* requested access bit; and no call made while current_uid = 0 ends with
\* PermissionDenied.
C14_AccessCheckSingleTriad ==
    /\ [](\A m \in MetaSpace, a \in {ACCESS_X, ACCESS_W, ACCESS_R} :
            check(m, a, session)
            <=> \/ session.uid = 0
                \/ /\ m.uid = session.uid
                   /\ (m.permissions \div (64 * a)) % 2 = 1
                \/ /\ m.uid # session.uid
                   /\ m.gid = session.gid
                   /\ (m.permissions \div (8 * a)) % 2 = 1
                \/ /\ m.uid # session.uid
                   /\ m.gid # session.gid
                   /\ (m.permissions \div a) % 2 = 1)
    /\ [][session.uid = 0 => ret'.err # "PermissionDenied"]_vars

\* C14 witness: a write_file by a session that is not root was refused
\* with PermissionDenied on a file that exists.
C14_Witness ==
    /\ ret.op = "write_file"
    /\ ret.err = "PermissionDenied"
    /\ session.uid # 0
    /\ TargetPtr(ret.path) # -1

\* The id of the inode a path names, by the lookups of read_file and
\* write_file; -1 when the path does not resolve.
TargetId(path) ==
    The({IF Len(path) = 0 \/ t.err # "" \/ InodePtr(t.id) = -1 THEN -1
         ELSE The({IF f.err # "" \/ f.id = 0 \/ InodePtr(f.id) = -1 THEN -1 ELSE f.id
                   : f \in {find_inode_in_dir(disk, InodePtr(t.id), path[Len(path)])}})
         : t \in {traverse_path_till_parent(disk, sb, block_group_managers, path)}})

\* The id of the directory traverse_path_till_parent resolves for path.
ParentId(path) == traverse_path_till_parent(disk, sb, block_group_managers, path).id

\* a write_file by a session other than root on an existing regular file
\* whose W check fails
DeniedWrite(path) ==
    /\ session.uid # 0
    /\ IsRegularFile(path)
    /\ ~check(meta[TargetId(path)], ACCESS_W, session)

\* a delete by a session other than root of an entry whose parent
\* directory fails the W check
DeniedDelete(path) ==
    /\ session.uid # 0
    /\ ParentHasEntry(path)
    /\ ~check(meta[ParentId(path)], ACCESS_W, session)

\* C15: with current_uid # 0, a write_file on a file whose W check fails,
\* and a delete_file / delete_dir of an entry whose parent directory fails
\* the W check, end with PermissionDenied and leave the image (contents,
\* entries, inodes, bitmaps) and the owner fields as they were.
C15_DeniedWriteAndDeleteChangeNothing ==
    [][/\ (ret'.op = "write_file" /\ DeniedWrite(ret'.path))
          => ret'.err = "PermissionDenied" /\ disk' = disk /\ meta' = meta
       /\ (ret'.op \in {"delete_file", "delete_dir"} /\ DeniedDelete(ret'.path))
          => ret'.err = "PermissionDenied" /\ disk' = disk /\ meta' = meta]_vars

\* The inodes of the tree rooted at inode id, and the blocks they point to.
Subtree(id) == ReachFrom({id}, sb.total_inodes)
SubtreeBlocks(id) == UNION {BlocksOf(i) : i \in Subtree(id)}

\* the inode-bitmap bit of inode id in image d
InodeBit(d, id) == is_inode_allocated(d, sb, id \div sb.inodes_per_group, id)

\* the non-empty entries of the directory path's parent other than those
\* named last(path)
SiblingEntries(path) ==
    {e \in EntriesOf(ParentId(path)) : ~NameIs(e, path[Len(path)])}

\* C16: after a successful delete_dir(p) the parent has no entry named
\* last(p); the inode-bitmap bit of every inode of the tree that was rooted
\* at p is clear; the data-bitmap bit of every block those inodes pointed to
\* is clear; and outside the tree nothing changed: the other entries of the
\* parent are byte for byte as before, and every live inode and every block
\* of a live inode outside the tree keeps its bitmap bit.
C16_DeleteDirReleasesSubtreeOnly ==
    [][(ret'.op = "delete_dir" /\ ret'.err = "" /\ Formatted
        /\ TargetId(ret'.path) # -1)
       => \A p \in {ret'.path}, t \in {TargetId(ret'.path)} :
             /\ ~ParentHasEntry(p)'
             /\ \A id \in Subtree(t) : ~InodeBit(disk', id)
             /\ \A b \in SubtreeBlocks(t) : ~BlockBit(b)'
             /\ \A e \in SiblingEntries(p) :
                   Peek(disk', e, DIRENT_SIZE) = Peek(disk, e, DIRENT_SIZE)
             /\ \A id \in LiveInodes \ Subtree(t) :
                   InodeBit(disk', id) = InodeBit(disk, id)
             /\ \A b \in UNION {BlocksOf(i) : i \in LiveInodes \ Subtree(t)}
                          \ SubtreeBlocks(t) :
                   BlockBit(b)' = BlockBit(b)]_vars

\* C17: after a successful delete_file(p) on a regular file the parent has
\* no entry named last(p) (a list_dir of the parent that succeeds does not
\* name it, a second delete_file(p) fails); the file's inode-bitmap bit is
\* clear; every block the file pointed to has its data-bitmap bit clear and
\* the inode's direct_blocks are all 0; and the other entries of the parent
\* are byte for byte as before.
C17_DeleteFileReleasesFileOnly ==
    [][(ret'.op = "delete_file" /\ ret'.err = "" /\ Formatted
        /\ IsRegularFile(ret'.path))
       => \A p \in {ret'.path}, t \in {TargetId(ret'.path)} :
             /\ ~ParentHasEntry(p)'
             /\ \A l \in {list_dir(disk', sb', block_group_managers',
                                   SubSeq(p, 1, Len(p) - 1))} :
                   l.err = "" => \A k \in 1 .. Len(l.data) : l.data[k] # p[Len(p)]
             /\ \A r \in delete_file(disk', sb', block_group_managers', p) :
                   r.err # ""
             /\ ~InodeBit(disk', t)
             /\ \A b \in BlocksOf(t) : ~BlockBit(b)'
             /\ \A i \in 0 .. (NDIRECT - 1) :
                   disk'[I_direct_blocks(InodePtr(t), i)] = 0
             /\ \A e \in SiblingEntries(p) :
                   Peek(disk', e, DIRENT_SIZE) = Peek(disk, e, DIRENT_SIZE)]_vars

\* The directory that traverse_path_till_parent resolves for path exists and
\* none of its non-empty entries is named last(path).
AbsentInParent(path) ==
    /\ Len(path) > 0
    /\ \E t \in {traverse_path_till_parent(disk, sb, block_group_managers, path)} :
          /\ t.err = ""
          /\ InodePtr(t.id) # -1
          /\ disk[I_file_type(InodePtr(t.id))] = FS_DIRECTORY
          /\ ~\E e \in EntriesOf(t.id) : NameIs(e, path[Len(path)])

\* Nothing of the filesystem changes in the step: the image, the superblock
\* copy, the managers and the ownership records.
StateUnchanged ==
    /\ disk' = disk
    /\ sb' = sb
    /\ block_group_managers' = block_group_managers
    /\ meta' = meta

Listed(d, s, mgrs, path) ==
    \E l \in {list_dir(d, s, mgrs, SubSeq(path, 1, Len(path) - 1))} :
        l.err = "" /\ \E k \in 1 .. Len(l.data) : l.data[k] = path[Len(path)]

\* C19: a delete_dir(p) on a path that names a regular file fails with
\* NotADirectory and has changed nothing (entry, inode, data blocks and both
\* bitmaps are byte for byte as before), and afterwards the file is listed
\* in its parent and read_file(p) succeeds.
C19_DeleteDirOnFileChangesNothing ==
    [][(ret'.op = "delete_dir" /\ IsRegularFile(ret'.path))
       => \A p \in {ret'.path} :
             /\ ret'.err = "NotADirectory"
             /\ StateUnchanged
             /\ IsRegularFile(p)'
             /\ read_file(disk', sb', block_group_managers', p).err = ""
             /\ Listed(disk', sb', block_group_managers', p)]_vars

\* C20: a list_dir(p) whose last component is in no entry of the resolved
\* parent fails with DirectoryNotFound, a list_dir(p) on a path that names a
\* regular file fails with NotADirectory, and no list_dir call, failed or
\* not, changes the image, the superblock copy or the managers.
C20_ListDirErrorsAndReadOnly ==
    [][ret'.op = "list_dir"
       => /\ AbsentInParent(ret'.path) => ret'.err = "DirectoryNotFound"
          /\ IsRegularFile(ret'.path) => ret'.err = "NotADirectory"
          /\ StateUnchanged]_vars

\* a list_dir on an existing regular file has been refused
C20_Witness ==
    /\ ret.op = "list_dir"
    /\ ret.err = "NotADirectory"
    /\ Formatted
    /\ IsRegularFile(ret.path)

\* how many elements of the listing l equal name
Occurrences(l, name) == Cardinality({k \in 1 .. Len(l) : l[k] = name})

\* C21: list_dir of a live directory returns one element per name created
\* in it and not deleted since: right after a successful create of p the
\* listing of p's parent succeeds and holds last(p) exactly once, and right
\* after a successful delete of p it succeeds and does not hold last(p).
C21_ListDirNamesLiveEntries ==
    \A l \in {list_dir(disk, sb, block_group_managers,
                       SubSeq(ret.path, 1, Len(ret.path) - 1))} :
        /\ (ret.op \in {"create_file", "create_dir"} /\ ret.err = "")
              => l.err = "" /\ Occurrences(l.data, ret.path[Len(ret.path)]) = 1
        /\ (ret.op \in {"delete_file", "delete_dir"} /\ ret.err = "")
              => l.err = "" /\ Occurrences(l.data, ret.path[Len(ret.path)]) = 0

\* Some non-final component of path is missing from the directory that the
\* components before it resolve to.
MissingIntermediate(path) ==
    \E i \in 1 .. (Len(path) - 1) : AbsentInParent(SubSeq(path, 1, i))

PathOps ==
    {"create_file", "create_dir", "read_file", "write_file", "delete_file",
     "delete_dir", "list_dir"}

\* C22: every operation called with a path one of whose non-final
\* components is missing from the directory resolved so far fails with
\* PathNotFound and changes nothing; a create allocates no inode and no
\* block.
C22_MissingIntermediateIsPathNotFound ==
    [][(ret'.op \in PathOps /\ MissingIntermediate(ret'.path))
       => /\ ret'.err = "PathNotFound"
          /\ StateUnchanged
          /\ ret'.inodes = <<>>
          /\ ret'.blocks = <<>>]_vars

\* a create_file under a missing parent has failed on an image whose root
\* holds other entries
C22_Witness ==
    /\ ret.op = "create_file"
    /\ ret.err = "PathNotFound"
    /\ Formatted
    /\ EntriesOf(sb.home_dir_inode) # {}
    /\ MissingIntermediate(ret.path)

\* Some non-final component of path names a regular file.
FileAsPathNode(path) ==
    \E i \in 1 .. (Len(path) - 1) : IsRegularFile(SubSeq(path, 1, i))

\* C23: every operation called with a path one of whose non-final
\* components names a regular file, the immediate parent of the last
\* component included, fails with NotADirectory and changes nothing.
C23_FileAsPathNodeIsNotADirectory ==
    [][(ret'.op \in PathOps /\ Formatted /\ FileAsPathNode(ret'.path))
       => ret'.err = "NotADirectory" /\ StateUnchanged]_vars

NameOps ==
    {"create_file", "create_dir", "read_file", "write_file", "delete_file",
     "delete_dir"}

\* C24: every name-requiring operation called with a path of no components
\* fails with InvalidPath and changes nothing; the root stays what it was.
C24_EmptyPathIsInvalidPath ==
    [][(ret'.op \in NameOps /\ ret'.path = <<>>)
       => ret'.err = "InvalidPath" /\ StateUnchanged]_vars

\* C25: right after a successful create_file or create_dir the new inode
\* has the requested file_type, file_size 0 and all direct_blocks 0, and its
\* owner fields are the session's uid and gid with permissions 0o644 for a
\* file and 0o755 for a directory.
C25_CreatedInodeIsFresh ==
    (ret.op \in {"create_file", "create_dir"} /\ ret.err = "")
    => \A new_inode \in {InodePtr(ret.inodes[1])},
          type \in {IF ret.op = "create_dir" THEN FS_DIRECTORY ELSE FS_FILE} :
          /\ new_inode # -1
          /\ disk[I_file_type(new_inode)] = type
          /\ disk[I_file_size(new_inode)] = 0
          /\ \A i \in 0 .. (NDIRECT - 1) : disk[I_direct_blocks(new_inode, i)] = 0
          /\ meta[ret.inodes[1]] =
                [uid |-> session.uid, gid |-> session.gid,
                 permissions |-> IF type = FS_DIRECTORY THEN DirPermissions
                                 ELSE FilePermissions]

\* the non-empty entries of the root and the number a directory can hold
RootEntries == EntriesOf(sb.home_dir_inode)
Capacity == NDIRECT * max_entries

\* how many direct_blocks of the root are attached
RootPointers ==
    Cardinality({i \in 0 .. (NDIRECT - 1) :
                    disk[I_direct_blocks(InodePtr(sb.home_dir_inode), i)] # 0})

\* C26: a directory holds at most NDIRECT * max_entries entries.  A create
\* of a new name in the root does not fail with DirectoryFull while the
\* root holds fewer entries, a successful one adds exactly one entry and
\* attaches a block only when every slot of the attached blocks is taken,
\* and a create into a root that holds NDIRECT * max_entries entries fails
\* with DirectoryFull; a create that fails with DirectoryFull leaves the
\* existing entries byte for byte as they were.
C26_DirectoryCapacity ==
    [][(/\ ret'.op = "create_file"
        /\ Formatted
        /\ Len(ret'.path) = 1
        /\ AbsentInParent(ret'.path))
       => /\ Cardinality(RootEntries) < Capacity => ret'.err # "DirectoryFull"
          /\ Cardinality(RootEntries) = Capacity => ret'.err = "DirectoryFull"
          /\ ret'.err = ""
                => /\ Cardinality(RootEntries') = Cardinality(RootEntries) + 1
                   /\ ret'.blocks # <<>>
                         => Cardinality(RootEntries) = max_entries * RootPointers
          /\ ret'.err = "DirectoryFull"
                => \A e \in RootEntries :
                      Peek(disk', e, DIRENT_SIZE) = Peek(disk, e, DIRENT_SIZE)]_vars

\* direct_blocks[i] of the root
RootPointer(i) == disk[I_direct_blocks(InodePtr(sb.home_dir_inode), i)]

\* slot k of the root, counted block index first and slot index second, is
\* one that add_entry_to_dir may take: its block is not attached yet or its
\* entry has inode_id 0
SlotFree(k) ==
    \/ RootPointer(k \div max_entries) = 0
    \/ ~BlockInRange(RootPointer(k \div max_entries))
    \/ disk[E_inode_id(EntryOff(RootPointer(k \div max_entries),
                                k % max_entries))] = 0
FreeSlots == {k \in 0 .. (Capacity - 1) : SlotFree(k)}

\* the entry at byte offset e of image d stores name
StoredName(d, e, name) ==
    /\ \A k \in 1 .. Len(name) : d[E_name(e) + k - 1] = name[k]
    /\ Len(name) < NAME_MAX => d[E_name(e) + Len(name)] = 0

\* C27: freed slots are reused.  A create of a new name in a root whose
\* first free slot lies in a block that is already attached succeeds, puts
\* the entry (new inode id and name) into exactly that slot, and attaches no
\* block to the directory.
C27_FreedSlotsAreReused ==
    [][(/\ ret'.op = "create_file"
        /\ Formatted
        /\ Len(ret'.path) = 1
        /\ AbsentInParent(ret'.path)
        /\ FreeSlots # {}
        /\ RootPointer(Least(FreeSlots) \div max_entries) # 0)
       => /\ ret'.err = ""
          /\ ret'.blocks = <<>>
          /\ RootPointers' = RootPointers
          /\ \A e \in {EntryOff(RootPointer(Least(FreeSlots) \div max_entries),
                                 Least(FreeSlots) % max_entries)} :
                /\ disk'[E_inode_id(e)] = ret'.inodes[1]
                /\ StoredName(disk', e, ret'.path[1])]_vars

\* C28: after format on a device of n blocks there are ceil(n / g) group
\* managers, g being blocks_per_group = inodes_per_group = n when n is less
\* than the standard group size and the standard group size otherwise; so
\* there is at least one group, format does not fail for want of group 0,
\* and a trailing partial group counts.
C28_GroupCountIsCeiling ==
    (ret.op = "format" /\ Len(ret.data) = 1)
    => \A n \in {ret.data[1]} :
       \A g \in {IF n < GROUP_SIZE THEN n ELSE GROUP_SIZE} :
          /\ ret.err = ""
          /\ sb.blocks_per_group = g
          /\ sb.inodes_per_group = g
          /\ Len(block_group_managers) = (n + g - 1) \div g
          /\ Len(block_group_managers) >= 1

\* The root pointer of the in-memory superblock and the one in block 0
\* agree and designate an allocated directory inode.
RootPointerSound ==
    /\ DiskSuperBlock(disk).home_dir_inode = sb.home_dir_inode
    /\ InodePtr(sb.home_dir_inode) # -1
    /\ InodeBit(disk, sb.home_dir_inode)
    /\ disk[I_file_type(InodePtr(sb.home_dir_inode))] = FS_DIRECTORY

\* C29: a successful format leaves home_dir_inode, in memory and in block
\* 0, equal to the id of the inode it allocated for the root, with that
\* inode's bitmap bit set and its file_type DIRECTORY; and every later call
\* and remount that finds the root pointer so leaves it so, with the same
\* value.
C29_RootPointerIsStable ==
    [][/\ (ret'.op = "format" /\ ret'.err = "")
          => RootPointerSound' /\ sb'.home_dir_inode = ret'.inodes[1]
       /\ (ret'.op # "format" /\ ret'.err # "crash" /\ RootPointerSound)
          => RootPointerSound' /\ sb'.home_dir_inode = sb.home_dir_inode]_vars

\* C30: no allocator leak.  A cycle create_file(p); write_file(p, D);
\* delete_file(p) that runs through, from any state of a formatted image,
\* leaves every bit of the inode bitmap as it was and every bit of the data
\* bitmap as it was except those of the directory blocks that the create
\* attached to the parent.
C30_CycleRestoresBitmaps ==
    [][(ret'.op = "cycle" /\ ret'.err = "" /\ Formatted)
       => /\ \A id \in 0 .. (sb.total_inodes - 1) :
                InodeBit(disk', id) = InodeBit(disk, id)
          /\ \A b \in 0 .. (sb.total_blocks - 1) :
                (\A k \in 1 .. Len(ret'.blocks) : ret'.blocks[k] # b)
                => BlockBit(b)' = BlockBit(b)]_vars

\* The lowest clear bit of group g's inode bitmap among bits
\* start .. inodes_per_group - 1 (start is 1 in group 0, 0 elsewhere), or -1.
LowestClearInode(g) ==
    The({IF free = {} THEN -1 ELSE Least(free)
         : free \in {{i \in (IF g = 0 THEN 1 ELSE 0) .. (sb.inodes_per_group - 1) :
                        ~get_bit(disk, get_inode_bitmap_ptr(sb, g), i)}}})

\* C31: allocate_inode in group g returns g * inodes_per_group + i, i the
\* lowest clear bit of the group's inode bitmap at or after the start index
\* (1 in group 0, 0 elsewhere); it sets exactly that bit, zeroes the inode's
\* slot and stores the id in it, and changes nothing else; it returns
\* NoSpace, changing nothing, only when no bit from the start index to
\* inodes_per_group - 1 is clear.
C31_AllocateInodeLowestClearBit ==
    [][(ret'.op = "allocate_inode")
       => \A g \in {ret'.data[1]} : \A i \in {LowestClearInode(g)} :
             IF i = -1
             THEN ret'.err = "NoSpace" /\ disk' = disk
             ELSE /\ ret'.err = ""
                  /\ ret'.inodes = <<g * sb.inodes_per_group + i>>
                  /\ disk' = Store(Fill(set_bit(disk, get_inode_bitmap_ptr(sb, g), i),
                                        get_inode_table_start(sb, g) + i * INODE_SIZE,
                                        INODE_SIZE, 0),
                                   I_id(get_inode_table_start(sb, g) + i * INODE_SIZE),
                                   g * sb.inodes_per_group + i)]_vars

\* C32: no block allocate_block returns has local index 0 within its group
\* (so global block 0 is never handed out and a block pointer of 0 can only
\* mean "unused"); when local bit 0 is the first clear bit the call marks it
\* used, searches again and returns, so bit 0 is set after every call that
\* returns a block (unless the block returned is the group's data bitmap
\* itself, which the call then zeroes).
C32_AllocateBlockNeverLocalZero ==
    (ret.op = "allocate_block")
    => /\ \A k \in 1 .. Len(ret.blocks) :
             ret.blocks[k] # 0 /\ ret.blocks[k] % sb.blocks_per_group # 0
       /\ Len(ret.blocks) > 0
          => get_bit(disk, get_block_bitmap_ptr(sb, ret.data[1]), 0)
             \/ ret.blocks[1] = ret.data[1] * sb.blocks_per_group + BLOCK_BITMAP_OFFSET

\* The first allocate_block of group 1 on the zeroed device: local bit 0 was
\* the first clear bit, it is now set, and the block returned is the next.
C32_Witness ==
    /\ nops = 1
    /\ ret.op = "allocate_block" /\ ret.err = "" /\ ret.data = <<1>>
    /\ ret.blocks = <<sb.blocks_per_group + 1>>
    /\ get_bit(disk, get_block_bitmap_ptr(sb, 1), 0)

\* C33: in every group, no block allocate_block returns is the group's inode
\* bitmap (relative block 1), its data bitmap (relative block 2) or a block
\* of its inode table (relative blocks 3 .. 3 + T - 1).
C33_AllocateBlockSkipsGroupMetadata ==
    (ret.op = "allocate_block")
    => \A k \in 1 .. Len(ret.blocks) :
          ~(ret.blocks[k] % sb.blocks_per_group
              \in INODE_BITMAP_OFFSET .. (FirstDataBlock(sb) - 1))

\* every slot, empty or not, of the blocks of inode id in the current image
SlotsOf(id) ==
    {EntryOff(b, j) : b \in BlocksOf(id), j \in 0 .. (max_entries - 1)}

\* the name buffer add_entry_to_dir is to leave for name: its first
\* min(len, NAME_MAX - 1) bytes, then zeros
PaddedName(name) ==
    [k \in 1 .. NAME_MAX |->
        IF k <= Min(Len(name), NAME_MAX - 1) THEN name[k] ELSE 0]

\* C34: the entry add_entry_to_dir writes for a name holds the first
\* min(len(name), NAME_MAX - 1) bytes of the name followed by zeros, and its
\* name_len is that number of stored bytes, for every name length (the
\* length of the buffer and above, and 256 and above, included).
C34_StoredNameAndLength ==
    [][(ret'.op = "create_file" /\ ret'.err = "" /\ Formatted)
       => \E e \in SlotsOf(sb.home_dir_inode)' :
             /\ disk'[E_inode_id(e)] = ret'.inodes[1]
             /\ Peek(disk', E_name(e), NAME_MAX) = PaddedName(ret'.path[1])
             /\ disk'[E_name_len(e)] = Min(Len(ret'.path[1]), NAME_MAX - 1)]_vars

\* C35: a create_file or create_dir that fails in add_entry_to_dir, after its
\* inode was allocated (DirectoryFull: no slot and no pointer left in the
\* parent; DiskFull: no block to grow the parent), leaves the inode bitmap
\* as it was before the call, so no bit is set for an inode that no entry
\* references.
C35_FailedCreateReleasesInode ==
    [][(/\ ret'.op \in {"create_file", "create_dir"}
        /\ ret'.err \in {"DirectoryFull", "DiskFull"}
        /\ Formatted)
       => \A id \in 0 .. (sb.total_inodes - 1) :
             InodeBit(disk', id) = InodeBit(disk, id)]_vars

\* the blocks that the direct_blocks of live inodes point to
LiveBlocks == {PointerValue(pr) : pr \in LivePointers}

\* C36: a successful delete_file(p) strands nothing.  Every inode that was
\* reachable from the root before the call and whose bitmap bit is set after
\* it is reachable from the root after it, and so is every block of a live
\* inode whose data-bitmap bit is set after it; also when p names a
\* directory that holds entries.
C36_DeleteFileStrandsNothing ==
    [][(ret'.op = "delete_file" /\ ret'.err = "" /\ Formatted)
       => /\ \A id \in LiveInodes : InodeBit(disk', id) => id \in LiveInodes'
          /\ \A b \in LiveBlocks \cap (0 .. (sb.total_blocks - 1)) :
                BlockBit(b)' => b \in LiveBlocks']_vars

\* the live inodes that are directories
LiveDirectories ==
    {id \in LiveInodes : disk[I_file_type(InodePtr(id))] = FS_DIRECTORY}

\* C37: on a formatted image no live directory holds two non-empty entries
\* with the same stored name, whatever the lengths of the names that were
\* created.
C37_StoredNamesAreUnique ==
    Formatted =>
        \A dir \in LiveDirectories :
            \A e1 \in EntriesOf(dir), e2 \in EntriesOf(dir) :
                e1 # e2 => Peek(disk, E_name(e1), NAME_MAX) # Peek(disk, E_name(e2), NAME_MAX)

\* the (directory, entry) pairs of live directories whose entry references
\* inode id
ReferencesTo(id) ==
    {de \in UNION {{<<dir, e>> : e \in EntriesOf(dir)} : dir \in LiveDirectories} :
        disk[E_inode_id(de[2])] = id}

\* every live inode but the root has exactly one referencing entry, and the
\* root has none
TreeShaped ==
    /\ ReferencesTo(sb.home_dir_inode) = {}
    /\ \A id \in LiveInodes \ {sb.home_dir_inode} :
          Cardinality(ReferencesTo(id)) = 1

\* C38: the namespace is a tree.  After every call on a formatted image
\* every live inode other than the root is referenced by exactly one
\* non-empty entry, in exactly one live directory, and no entry references
\* the root; and no create is given the id of an inode that is still live.
C38_NamespaceIsATree ==
    [][/\ Formatted' => TreeShaped'
       /\ (Formatted /\ ret'.op \in {"create_file", "create_dir"} /\ ret'.err = "")
          => ~(ret'.inodes[1] \in LiveInodes)]_vars

\* direct_blocks[i] of inode id
PointerOf(id, i) == disk[I_direct_blocks(InodePtr(id), i)]

\* C39: on a formatted image the non-zero direct_blocks of every live
\* directory form a prefix: once a pointer is 0 every later one is 0, so a
\* scan that stops at the first 0 misses no block of the directory.
C39_DirectoryPointersFormAPrefix ==
    Formatted =>
        \A dir \in LiveDirectories :
            \A i \in 0 .. (NDIRECT - 1), j \in 0 .. (NDIRECT - 1) :
                (i < j /\ PointerOf(dir, i) = 0) => PointerOf(dir, j) = 0

\* A root that has grown to a second block and has lost an entry since.
C39_Witness ==
    /\ Formatted
    /\ ret.op = "delete_file" /\ ret.err = ""
    /\ sb.home_dir_inode \in LiveDirectories
    /\ PointerOf(sb.home_dir_inode, 0) # 0
    /\ PointerOf(sb.home_dir_inode, 1) # 0

\* the inodes below directory id: those its entries reference, and theirs
Descendants(id) == ReachFrom(ChildrenOf(id), sb.total_inodes)

====
